---- MODULE Spec2Model ----
(***************************************************************************)
(* Model of integracao_tiny_render.py: the job that copies categories,     *)
(* products, sellers and orders from the Tiny ERP API into PostgreSQL.     *)
(*                                                                         *)
(* One behaviour of the model is a sequence of invocations of main() on    *)
(* the same database.  The database (the controle_progresso table and the  *)
(* data tables) persists from one invocation to the next; everything else  *)
(* is local to an invocation.  The provider and the database are the       *)
(* environment: every request and every database operation may succeed or  *)
(* fail, which the actions choose with \E.                                 *)
(***************************************************************************)
EXTENDS Integers, Sequences, FiniteSets, TLC

\* ------------------------------------------------------------------ bounds
\* Number of invocations of main() in one behaviour.
MaxExecucoes == 3
\* Largest number of listing pages that hold records, per entity type.
MaxPaginasColecao == 2
\* Largest value drawn for MAX_LOTES_*_POR_EXECUCAO (10 in the source).
MaxLotes == 2
\* Largest value drawn for PAGINAS_POR_LOTE_* (3 in the source).
MaxPaginasPorLote == 2
\* Records on one listing page.
RegistrosPorPagina == 2
\* Anomalies (failed requests, malformed or error answers, empty pages,
\* failed database operations, failed records) in one behaviour.
MaxFalhas == 1
\* Largest number of pages of one delta listing.
MaxPaginasDelta == 2
\* Write operations on the data tables in one behaviour.
MaxOperacoes == 2
\* Calls of fazer_requisicao_tiny in one behaviour.
MaxChamadas == 2
\* Invocations of main() in a behaviour that follows the connections.
MaxExecucoesConexao == 2
\* Listing pages that hold records, per entity type, in such a behaviour.
PaginasConexao == 1
\* Largest provider id of a category, product, seller or order.
MaxId == 2
\* Largest number of line items of one order.
MaxItens == 2
\* Listing pages of the provider's contact collection.
MaxPaginasContatos == 2

\* --------------------------------------------------------------- constants
\* ler_progresso_db's default valor_padrao=None: no row, or a NULL value.
NULO == -1
\* The empty string that clears the page cursor: salvar_progresso_db(.., "").
VAZIO == 0

CHAVE_PAGINA_PRODUTOS == "ultima_pagina_produto_processada"
CHAVE_TIMESTAMP_PRODUTOS == "timestamp_sincronizacao_produtos"
CHAVE_PAGINA_PEDIDOS == "ultima_pagina_pedido_processada"
CHAVE_TIMESTAMP_PEDIDOS == "timestamp_sincronizacao_pedidos"

Chaves ==
  {CHAVE_PAGINA_PRODUTOS, CHAVE_TIMESTAMP_PRODUTOS,
   CHAVE_PAGINA_PEDIDOS, CHAVE_TIMESTAMP_PEDIDOS}

\* The two entity types that have a backfill and an incremental mode.
Paginadas == {"produtos", "pedidos"}
\* The stages of main(), in the order of the source text.
Etapas == {"categorias", "produtos", "vendedores", "pedidos"}

CHAVE_PAGINA(e) ==
  IF e = "produtos" THEN CHAVE_PAGINA_PRODUTOS ELSE CHAVE_PAGINA_PEDIDOS

CHAVE_TIMESTAMP(e) ==
  IF e = "produtos" THEN CHAVE_TIMESTAMP_PRODUTOS ELSE CHAVE_TIMESTAMP_PEDIDOS

\* Provider error codes the source tests for.
CodigosFimPaginacao == {22, 23}
CodigosNenhumRegistro == {14, 34}
\* Error codes the source gives no meaning to in a listing answer.
CodigosOutroErro == {2}

VARIABLES
  \* --- the provider's records altered over time (see the alterations section)
  alt,
  \* --- two instances of the job on one database (see the instances section)
  inst,
  \* --- the database, kept from one invocation to the next
  progresso,            \* controle_progresso: chave -> NULO, VAZIO or a number
  linhas,               \* ids of the product and order rows committed
  \* --- the configuration and the provider's collections
  max_lotes,            \* MAX_LOTES_PRODUTOS/PEDIDOS_POR_EXECUCAO
  paginas_por_lote,     \* PAGINAS_POR_LOTE_PRODUTOS/PEDIDOS
  num_paginas,          \* per entity type, the listing pages that hold records
  \* --- one invocation of main()
  pc,                   \* where main() is
  execucao,             \* the number of this invocation; also its clock
  lote_atual,           \* main's lote_atual
  pagina_atual,         \* the backfill's pagina_atual
  lotes_processados,    \* the backfill's lotes_processados
  paginas_processadas,  \* the backfill's paginas_processadas
  \* --- history
  falhas,               \* anomalies so far in the behaviour
  listagens,            \* per entity type, pages requested by this invocation's backfill
  deltas,               \* per entity type, delta requests made by this invocation
  eventos,              \* stages that made a provider request or a write in this invocation
  retornou,             \* stages that have returned in this invocation
  resultado,            \* per stage, what it returned last: sucesso, restantes
  inicio,               \* controle_progresso as it was when this invocation started
  fim_visto,            \* per entity type, the first invocation whose backfill got end-of-pages
  ult,                  \* per entity type, the listing answer the last step handled, and how
  \* --- the data tables, one write operation at a time
  db,                   \* the committed rows of the five data tables
  relogio,              \* CURRENT_TIMESTAMP of the database
  op,                   \* the last write operation: its input, its result, db before it
  arvore,               \* the category tree of the last sincronizar_categorias that succeeded
  \* --- one call of fazer_requisicao_tiny, one attempt at a time
  req,                  \* where the call is, its attempts so far and what it returned
  \* --- one invocation of main() with its database connections
  cx,                   \* the connections, the progress store, where main() is, the last operations
  \* --- the backfill of one entity type, run after run, with kills of the process
  queda                 \* the pages done so far, and what was committed when the process was killed

vars ==
  <<progresso, linhas, max_lotes, paginas_por_lote, num_paginas, pc, execucao,
    lote_atual, pagina_atual, lotes_processados, paginas_processadas, falhas,
    listagens, deltas, eventos, retornou, resultado, inicio, fim_visto, ult,
    db, relogio, op, arvore, req, cx, queda, inst, alt>>

\* ---------------------------------------------------------- progress store
\* Python truthiness of a value read from controle_progresso: None and ""
\* are false, every other string is true.
Verdadeiro(valor) == valor # NULO /\ valor # VAZIO

\* str.isdigit() of a stored value: the stored numbers stand for their
\* decimal strings, which int() maps back to the number.
isdigit(valor) == valor > 0

\* ler_progresso_db(conn, chave, valor_padrao): the stored value, or the default
\* when there is no row, the value is NULL, or the read fails (ok = FALSE).
ler_progresso_db(ok, chave, valor_padrao) ==
  IF ok /\ progresso[chave] # NULO THEN progresso[chave] ELSE valor_padrao

\* salvar_progresso_db(conn, chave, valor) on store p: upsert and commit, or
\* (ok = FALSE) rollback, leaving p as it was.  Callers ignore its result.
salvar_progresso_db(p, ok, chave, valor) ==
  IF ok THEN [p EXCEPT ![chave] = valor] ELSE p

\* datetime.now(timezone.utc): the clock reads the number of the invocation.
novo_timestamp == execucao

\* ------------------------------------------------------- provider answers
\* What fazer_requisicao_tiny returns, reduced to what the callers read:
\*   erro          the dict has the key "erro" (all attempts failed, or bad JSON)
\*   tem_retorno   the dict has the key "retorno"
\*   status        retorno["status"]
\*   codigo_erro   retorno["codigo_erro"], 0 when absent
\*   texto_codigo  the number the regex of extrair_codigo_erro_api finds in
\*                 str(resposta), 0 when it finds none
\*   registros     the records of the page, in the provider's order
Resposta(erro, tem_retorno, status, codigo_erro, texto_codigo, registros) ==
  [erro |-> erro, tem_retorno |-> tem_retorno, status |-> status,
   codigo_erro |-> codigo_erro, texto_codigo |-> texto_codigo,
   registros |-> registros]

RespostaErroRequisicao == Resposta(TRUE, FALSE, "", 0, 0, <<>>)
RespostaSemRetorno == Resposta(FALSE, FALSE, "", 0, 0, <<>>)
RespostaStatusErro(codigo) == Resposta(FALSE, TRUE, "Erro", codigo, 0, <<>>)
RespostaRegistros(registros, texto) == Resposta(FALSE, TRUE, "OK", 0, texto, registros)

\* The ids on page p of a collection.
RegistrosDaPagina(p) ==
  [i \in 1..RegistrosPorPagina |-> (p - 1) * RegistrosPorPagina + i]

\* An answer that is not the regular one for the page asked.
Anomala(e, p, resposta) ==
  \/ resposta.erro
  \/ ~resposta.tem_retorno
  \/ resposta.status = "Erro" /\ resposta.codigo_erro \notin CodigosFimPaginacao
  \/ resposta.status = "OK" /\ resposta.registros = <<>>
  \/ resposta.texto_codigo # 0

\* The answers the provider can give to a backfill listing of page p: the
\* records of the page, or past the last page the end-of-pages code; and, as
\* anomalies, a failed request, an answer without envelope, another error
\* status, past the last page an empty list, and records whose text the
\* regex of extrair_codigo_erro_api reads as an end-of-pages code.
RespostasListagem(e, p) ==
  {RespostaErroRequisicao, RespostaSemRetorno}
    \cup {RespostaStatusErro(c) : c \in CodigosOutroErro}
    \cup (IF p <= num_paginas[e]
            THEN {RespostaRegistros(RegistrosDaPagina(p), t) : t \in {0, 22}}
            ELSE {RespostaStatusErro(c) : c \in CodigosFimPaginacao}
                   \cup {RespostaRegistros(<<>>, 0)})

\* extrair_codigo_erro_api(resposta): retorno["codigo_erro"] when the envelope
\* has it, else the first number the regex finds in str(resposta); 0 is None.
extrair_codigo_erro_api(resposta) ==
  IF resposta.tem_retorno /\ resposta.codigo_erro # 0
    THEN resposta.codigo_erro
    ELSE resposta.texto_codigo

\* verificar_fim_paginacao(resposta)
verificar_fim_paginacao(resposta) ==
  extrair_codigo_erro_api(resposta) \in CodigosFimPaginacao

\* How the provider meant an answer (the history records it; the code does
\* not read it).
TipoResposta(resposta) ==
  IF resposta.erro THEN "erro"
  ELSE IF ~resposta.tem_retorno THEN "sem_retorno"
  ELSE IF resposta.status = "Erro"
    THEN (IF resposta.codigo_erro \in CodigosFimPaginacao THEN "fim" ELSE "status_erro")
  ELSE IF resposta.registros = <<>> THEN "vazia"
  ELSE "registros"

\* The ids of a sequence of records.
Ids(registros) == {registros[i] : i \in DOMAIN registros}

\* ------------------------------------------------------ backfill, one page
\* A backfill that advances by two pages.
ProximaPagina_salta(p) == p + 2

\* pagina_atual += 1
ProximaPagina(p) == p + 1

\* A loop over the records of a page that fails the page when a record fails.
DesfechoRegistros_fatal(falhos) == IF falhos = {} THEN "avanca" ELSE "falha"

\* The loop over the records of a page: a record whose detail fetch or upsert
\* fails (buscar_e_gravar_detalhes_* returns False: request error, error status
\* such as "record not found", unusable data, database error) is counted and
\* logged, and the loop goes on; the page advances whatever the count.
DesfechoRegistros(falhos) == "avanca"

\* What can happen while the records of a listing page are processed:
\*   "normal"        the page's commit succeeds
\*   "commit_falha"  conn.commit() of the page raises and is rolled back
\*   "excecao"       conn.cursor() raises before the first record (products
\*                   only: the orders loop opens no cursor), which the outer
\*                   except of the function handles
ModosPagina(e) ==
  IF e = "produtos" THEN {"normal", "commit_falha", "excecao"}
  ELSE {"normal", "commit_falha"}

\* One iteration of the inner loop of buscar_e_gravar_produtos_carga_completa
\* (and of buscar_e_gravar_pedidos_carga_completa, the same text for orders) on
\* the answer to the listing of page p.  ok1 and ok2 are the outcomes of the
\* calls of salvar_progresso_db, in order; falhos are the records whose
\* detail fetch or upsert fails.  The result:
\*   desfecho  "falha": return sucesso=False; "fim": todos processados, break;
\*             "avanca": the iteration ends with pagina_atual advanced
\*   prog      controle_progresso afterwards
\*   lin       the entity's committed rows afterwards
\*   detalhes  the number of records whose detail was requested
\*   falhou    the page failed: request, envelope, error status or commit
\*   pagina    pagina_atual afterwards
processar_pagina(e, p, resposta, ok1, ok2, modo, falhos) ==
  IF resposta.erro THEN
    [desfecho |-> "falha",
     prog |-> salvar_progresso_db(progresso, ok1, CHAVE_PAGINA(e), p),
     lin |-> linhas[e], detalhes |-> 0, falhou |-> TRUE, pagina |-> p]
  ELSE IF verificar_fim_paginacao(resposta) THEN
    [desfecho |-> "fim",
     prog |-> salvar_progresso_db(
                salvar_progresso_db(progresso, ok1, CHAVE_TIMESTAMP(e), novo_timestamp),
                ok2, CHAVE_PAGINA(e), VAZIO),
     lin |-> linhas[e], detalhes |-> 0, falhou |-> FALSE, pagina |-> p]
  ELSE IF ~resposta.tem_retorno THEN
    [desfecho |-> "falha",
     prog |-> salvar_progresso_db(progresso, ok1, CHAVE_PAGINA(e), p),
     lin |-> linhas[e], detalhes |-> 0, falhou |-> TRUE, pagina |-> p]
  ELSE IF resposta.registros = <<>> THEN
    \* "if not produtos_pagina": an empty list, and also an error status
    \* other than end-of-pages, whose retorno has no list of records
    [desfecho |-> "avanca",
     prog |-> salvar_progresso_db(progresso, ok1, CHAVE_PAGINA(e), ProximaPagina(p)),
     lin |-> linhas[e], detalhes |-> 0, falhou |-> resposta.status = "Erro",
     pagina |-> ProximaPagina(p)]
  ELSE IF modo = "excecao" THEN
    [desfecho |-> "falha",
     prog |-> salvar_progresso_db(progresso, ok1, CHAVE_PAGINA(e), p),
     lin |-> linhas[e], detalhes |-> 0, falhou |-> TRUE, pagina |-> p]
  ELSE
    [desfecho |-> DesfechoRegistros(falhos),
     prog |-> salvar_progresso_db(progresso, ok1, CHAVE_PAGINA(e), ProximaPagina(p)),
     lin |-> linhas[e] \cup (Ids(resposta.registros) \ falhos),
     detalhes |-> Len(resposta.registros),
     falhou |-> modo = "commit_falha",
     pagina |-> ProximaPagina(p)]

\* The environment's choices that matter for an answer: the second write
\* exists only at end-of-pages, the page modes and the failing records only
\* when records are processed.
EscolhasPagina(e, resposta) ==
  LET fim == ~resposta.erro /\ verificar_fim_paginacao(resposta)
      comRegistros ==
        /\ ~resposta.erro /\ ~fim /\ resposta.tem_retorno
        /\ resposta.registros # <<>>
  IN  {c \in [ok1 : BOOLEAN, ok2 : BOOLEAN, modo : ModosPagina(e),
              falhos : SUBSET Ids(resposta.registros)] :
         /\ ~fim => c.ok2
         /\ ~comRegistros => c.modo = "normal" /\ c.falhos = {}
         /\ c.modo = "excecao" => c.falhos = {}}

\* The anomalies of one iteration.
FalhasPagina(e, p, resposta, c) ==
  (IF Anomala(e, p, resposta) THEN 1 ELSE 0)
    + (IF c.ok1 THEN 0 ELSE 1) + (IF c.ok2 THEN 0 ELSE 1)
    + (IF c.modo = "normal" THEN 0 ELSE 1) + Cardinality(c.falhos)

\* ------------------------------------------------------------------ main()
SemResultado == [sucesso |-> FALSE, restantes |-> FALSE]
SemResposta ==
  [resp |-> "nenhuma", pagina |-> 0, detalhes |-> 0, falhou |-> FALSE,
   falhos |-> {}, antes |-> {}]

\* The batch limits.  The source sets the constants of products and of
\* orders to the same values; the model draws them in Init.
MAX_LOTES_PRODUTOS_POR_EXECUCAO == max_lotes
MAX_LOTES_PEDIDOS_POR_EXECUCAO == max_lotes
PAGINAS_POR_LOTE_PRODUTOS == paginas_por_lote
PAGINAS_POR_LOTE_PEDIDOS == paginas_por_lote

MaxLotesDe(e) ==
  IF e = "produtos" THEN MAX_LOTES_PRODUTOS_POR_EXECUCAO
  ELSE MAX_LOTES_PEDIDOS_POR_EXECUCAO

PaginasPorLoteDe(e) ==
  IF e = "produtos" THEN PAGINAS_POR_LOTE_PRODUTOS ELSE PAGINAS_POR_LOTE_PEDIDOS

\* A main() that calls sincronizar_vendedores right after the categories.
main_apos_categorias_vendedores(sucesso) == "vendedores"

\* main() after sincronizar_categorias returned: the result is only logged.
main_apos_categorias(sucesso) == "produtos"

\* A main() without the return on produtos_restantes: it goes on to the
\* sellers when the batch limit is reached.
main_apos_produtos_sem_return(sucesso, restantes, lote) ==
  IF sucesso /\ restantes /\ ~(lote + 1 > max_lotes) THEN "produtos"
  ELSE "vendedores"

\* A main() whose loop has no limit of batches.
main_apos_produtos_sem_limite(sucesso, restantes, lote) ==
  IF ~sucesso THEN (IF restantes THEN "fim" ELSE "vendedores")
  ELSE IF restantes THEN "produtos"
  ELSE "vendedores"

\* main()'s loop around buscar_e_gravar_produtos, after a call returned
\* (sucesso, restantes) with lote_atual = lote: where main() goes next.
main_apos_produtos(sucesso, restantes, lote) ==
  IF ~sucesso THEN (IF restantes THEN "fim" ELSE "vendedores")
  ELSE IF restantes
    THEN (IF lote + 1 > MAX_LOTES_PRODUTOS_POR_EXECUCAO THEN "fim" ELSE "produtos")
  ELSE "vendedores"

\* main() after sincronizar_vendedores returned: the result is only logged.
main_apos_vendedores(sucesso) == "pedidos"

\* The data tables when they have just been created: no rows.
BancoVazio ==
  [categorias |-> {}, produtos |-> {}, vendedores |-> {}, pedidos |-> {},
   itens_pedido |-> {}]

SemOperacao == [tipo |-> "nenhuma"]

destino == <<db, relogio, op, arvore>>

\* No call of fazer_requisicao_tiny has been made.
SemRequisicao ==
  [pc |-> "parado", endpoint |-> "", tentativas |-> 0, respostas |-> <<>>,
   retorno |-> [tipo |-> "nenhum", corpo |-> 0], chamadas |-> 0]

\* main() has not started: no connection, an empty progress store.
SemConexao ==
  [pc |-> "parado", execucao |-> 0, conn |-> "None", locais |-> 0,
   prog |-> [k \in Chaves |-> NULO], pagina |-> 0,
   esgotada |-> FALSE, req_apos |-> FALSE, etapa_apos |-> "", ops |-> <<>>]

\* No page done, no kill.
SemQueda ==
  [mortes |-> 0, etapa |-> "", retomada |-> FALSE,
   completas |-> [e \in Paginadas |-> {}],
   prog |-> [k \in Chaves |-> NULO], linhas |-> {}]

\* The two instances of the job that a scheduler may start side by side.
Instancias == {1, 2}

\* No instance has started: an empty progress store, no product row.
InstanciaParada ==
  [pc |-> "parado", lida |-> NULO, pagina_atual |-> 0, lotes_processados |-> 0,
   paginas_processadas |-> 0, execucoes |-> 0, feitas |-> {}]

SemInstancias ==
  [prog |-> [k \in Chaves |-> NULO], lin |-> {},
   p |-> [i \in Instancias |-> InstanciaParada]]

\* The backfill is over: a timestamp of instant 0 is stored, no product was
\* altered since, no incremental run is in progress.  hora is the clock;
\* alterado[id] is the instant of the last alteration of a product at the
\* provider, gravado[id] the instant of the version the job last stored, 0
\* for none.
SemAlteracoes ==
  [hora |-> 1, ts |-> 0, pc |-> "parado", listados |-> {},
   alterado |-> [id \in 1..MaxId |-> 0],
   gravado |-> [id \in 1..MaxId |-> 0]]

externos == <<req, cx, queda, inst, alt>>

Init ==
  /\ db = BancoVazio
  /\ relogio = 0
  /\ op = SemOperacao
  /\ arvore = <<>>
  /\ req = SemRequisicao
  /\ cx = SemConexao
  /\ queda = SemQueda
  /\ inst = SemInstancias
  /\ alt = SemAlteracoes
  /\ progresso = [k \in Chaves |-> NULO]
  /\ linhas = [e \in Paginadas |-> {}]
  /\ max_lotes \in 1..MaxLotes
  /\ paginas_por_lote \in 1..MaxPaginasPorLote
  /\ num_paginas \in [Paginadas -> 0..MaxPaginasColecao]
  /\ pc = "parado"
  /\ execucao = 0
  /\ lote_atual = 1
  /\ pagina_atual = 0
  /\ lotes_processados = 0
  /\ paginas_processadas = 0
  /\ falhas = 0
  /\ listagens = [e \in Paginadas |-> <<>>]
  /\ deltas = [e \in Paginadas |-> 0]
  /\ eventos = {}
  /\ retornou = {}
  /\ resultado = [s \in Etapas |-> SemResultado]
  /\ inicio = [k \in Chaves |-> NULO]
  /\ fim_visto = [e \in Paginadas |-> 0]
  /\ ult = [e \in Paginadas |-> SemResposta]

config == <<max_lotes, paginas_por_lote, num_paginas>>
locais == <<pagina_atual, lotes_processados, paginas_processadas>>

\* main() from its start to the call of sincronizar_categorias: conectar_db and
\* the creation of the tables; when one of them fails main() returns.
main_inicio ==
  /\ pc \in {"parado", "fim"}
  /\ execucao < MaxExecucoes
  /\ \E ok \in BOOLEAN :
       /\ falhas + (IF ok THEN 0 ELSE 1) <= MaxFalhas
       /\ falhas' = falhas + (IF ok THEN 0 ELSE 1)
       /\ pc' = IF ok THEN "categorias" ELSE "fim"
  /\ execucao' = execucao + 1
  /\ lote_atual' = 1
  /\ pagina_atual' = 0
  /\ lotes_processados' = 0
  /\ paginas_processadas' = 0
  /\ listagens' = [e \in Paginadas |-> <<>>]
  /\ deltas' = [e \in Paginadas |-> 0]
  /\ eventos' = {}
  /\ retornou' = {}
  /\ resultado' = [s \in Etapas |-> SemResultado]
  /\ inicio' = progresso
  /\ ult' = [e \in Paginadas |-> SemResposta]
  /\ UNCHANGED <<progresso, linhas, config, fim_visto, destino, externos>>

\* sincronizar_categorias and sincronizar_vendedores have the same shape: one
\* request, then the upserts in one transaction.  desfecho is
\*   "erro_requisicao"  the request fails, or its answer is not usable
\*   "gravado"          no record to write, or every upsert and the commit
\*                      succeed
\*   "erro_db"          an upsert or the commit fails: rollback
SucessoSincronizar(desfecho) == desfecho = "gravado"

sincronizar(etapa, desfecho) ==
  LET sucesso == SucessoSincronizar(desfecho)
      falha == ~sucesso
  IN  /\ falhas + (IF falha THEN 1 ELSE 0) <= MaxFalhas
      /\ falhas' = falhas + (IF falha THEN 1 ELSE 0)
      /\ eventos' = eventos \cup {etapa}
      /\ retornou' = retornou \cup {etapa}
      /\ resultado' = [resultado EXCEPT ![etapa] =
                         [sucesso |-> sucesso, restantes |-> FALSE]]
      /\ ult' = [e \in Paginadas |-> SemResposta]
      /\ UNCHANGED <<progresso, linhas, config, execucao, lote_atual, locais,
                     listagens, deltas, inicio, fim_visto, destino, externos>>

DesfechosSincronizar == {"erro_requisicao", "gravado", "erro_db"}

sincronizar_categorias ==
  /\ pc = "categorias"
  /\ \E d \in DesfechosSincronizar :
       /\ sincronizar("categorias", d)
       /\ pc' = main_apos_categorias(SucessoSincronizar(d))

sincronizar_vendedores ==
  /\ pc = "vendedores"
  /\ \E d \in DesfechosSincronizar :
       /\ sincronizar("vendedores", d)
       /\ pc' = main_apos_vendedores(SucessoSincronizar(d))

\* main() after buscar_e_gravar_pedidos_e_itens returned: the result is only
\* logged, and main() ends.
main_apos_pedidos(sucesso) == "fim"

PcCarga(e) == IF e = "produtos" THEN "produtos_carga" ELSE "pedidos_carga"
PcIncremental(e) == IF e = "produtos" THEN "produtos_inc" ELSE "pedidos_inc"

\* The return of a products or orders stage to main(): buscar_e_gravar_produtos
\* returns (conn, sucesso, restantes) into main()'s loop, and
\* buscar_e_gravar_pedidos_e_itens returns (conn, sucesso).
Retornar(e, sucesso, restantes) ==
  LET proximo ==
        IF e = "produtos" THEN main_apos_produtos(sucesso, restantes, lote_atual)
        ELSE main_apos_pedidos(sucesso)
  IN  /\ pc' = proximo
      /\ lote_atual' =
           IF e = "produtos" /\ sucesso /\ restantes THEN lote_atual + 1 ELSE lote_atual
      /\ retornou' = IF proximo # e THEN retornou \cup {e} ELSE retornou
      /\ resultado' = [resultado EXCEPT ![e] =
                         [sucesso |-> sucesso, restantes |-> restantes]]
      /\ pagina_atual' = 0
      /\ lotes_processados' = 0
      /\ paginas_processadas' = 0

\* A failed read is drawn only where it differs from a successful one: where
\* a value is stored.
LeituraPodeFalhar(ok, chave) == ~ok => progresso[chave] # NULO

\* "if timestamp: incremental, else: carga completa"
ModoSincronizacao(timestamp) ==
  IF Verdadeiro(timestamp) THEN "incremental" ELSE "carga_completa"

\* The page a backfill starts from, given what it read as page cursor.
PaginaInicial(pagina_atual_str) ==
  IF Verdadeiro(pagina_atual_str) /\ isdigit(pagina_atual_str)
    THEN pagina_atual_str ELSE 1

\* buscar_e_gravar_produtos / buscar_e_gravar_pedidos_e_itens up to the first
\* request: the mode is chosen from the stored timestamp, and a backfill
\* reads its page cursor.  okT and okP are the outcomes of the two reads.
buscar_e_gravar(e) ==
  /\ pc = e
  /\ \E okT, okP \in BOOLEAN :
       LET timestamp == ler_progresso_db(okT, CHAVE_TIMESTAMP(e), NULO)
           pagina_atual_str == ler_progresso_db(okP, CHAVE_PAGINA(e), NULO)
           n == (IF okT THEN 0 ELSE 1) + (IF okP THEN 0 ELSE 1)
       IN  /\ LeituraPodeFalhar(okT, CHAVE_TIMESTAMP(e))
           /\ LeituraPodeFalhar(okP, CHAVE_PAGINA(e))
           /\ falhas + n <= MaxFalhas
           /\ falhas' = falhas + n
           /\ IF ModoSincronizacao(timestamp) = "incremental"
                THEN /\ okP
                     /\ pc' = PcIncremental(e)
                     /\ pagina_atual' = 0
                ELSE /\ pc' = PcCarga(e)
                     /\ pagina_atual' = PaginaInicial(pagina_atual_str)
  /\ lotes_processados' = 0
  /\ paginas_processadas' = 0
  /\ ult' = [x \in Paginadas |-> SemResposta]
  /\ UNCHANGED <<progresso, linhas, config, execucao, lote_atual, listagens, deltas,
                 eventos, retornou, resultado, inicio, fim_visto, destino, externos>>

buscar_e_gravar_produtos == buscar_e_gravar("produtos")
buscar_e_gravar_pedidos_e_itens == buscar_e_gravar("pedidos")

\* One iteration of the loops of the backfill: the listing of pagina_atual,
\* the processing of the page, the checkpoint, and the loops' conditions.
carga_completa(e) ==
  /\ pc = PcCarga(e)
  /\ \E resposta \in RespostasListagem(e, pagina_atual) :
       \E c \in EscolhasPagina(e, resposta) :
         LET r == processar_pagina(e, pagina_atual, resposta,
                                   c.ok1, c.ok2, c.modo, c.falhos)
             n == FalhasPagina(e, pagina_atual, resposta, c)
             pp == paginas_processadas + 1
             lp == lotes_processados + 1
             fimLote == ~(pp < PaginasPorLoteDe(e))
             limite == fimLote /\ lp >= MaxLotesDe(e)
         IN  /\ falhas + n <= MaxFalhas
             /\ falhas' = falhas + n
             /\ progresso' = r.prog
             /\ linhas' = [linhas EXCEPT ![e] = r.lin]
             /\ listagens' = [listagens EXCEPT ![e] = Append(@, pagina_atual)]
             /\ eventos' = eventos \cup {e}
             /\ fim_visto' = IF TipoResposta(resposta) = "fim" /\ fim_visto[e] = 0
                               THEN [fim_visto EXCEPT ![e] = execucao]
                               ELSE fim_visto
             /\ ult' = [x \in Paginadas |->
                          IF x = e
                            THEN [resp |-> TipoResposta(resposta),
                                  pagina |-> pagina_atual,
                                  detalhes |-> r.detalhes, falhou |-> r.falhou,
                                  falhos |-> c.falhos,
                                  antes |-> IF r.detalhes > 0 THEN linhas[e] ELSE {}]
                            ELSE SemResposta]
             /\ CASE r.desfecho = "falha" -> Retornar(e, FALSE, TRUE)
                  [] r.desfecho = "fim" -> Retornar(e, TRUE, FALSE)
                  [] r.desfecho = "avanca" /\ limite -> Retornar(e, TRUE, TRUE)
                  [] OTHER ->
                       /\ pagina_atual' = r.pagina
                       /\ paginas_processadas' = IF fimLote THEN 0 ELSE pp
                       /\ lotes_processados' = IF fimLote THEN lp ELSE lotes_processados
                       /\ UNCHANGED <<pc, lote_atual, retornou, resultado>>
  /\ UNCHANGED <<config, execucao, deltas, inicio, destino, externos>>

buscar_e_gravar_produtos_carga_completa == carga_completa("produtos")
buscar_e_gravar_pedidos_carga_completa == carga_completa("pedidos")

\* The answers the provider can give to a delta listing: records altered
\* since the timestamp (none, or those of one page of the collection), the
\* "no record found" codes, and the anomalies.
RespostasDelta(e) ==
  {RespostaErroRequisicao, RespostaSemRetorno}
    \cup {RespostaStatusErro(c) : c \in CodigosOutroErro \cup CodigosNenhumRegistro}
    \cup {RespostaRegistros(rs, 0) :
            rs \in {<<>>} \cup {RegistrosDaPagina(p) : p \in 1..num_paginas[e]}}

\* The number of pages of the delta listing an answer is the first page of:
\* an answer without records is a listing without pages.
PaginasDelta(resposta) ==
  IF ~resposta.erro /\ resposta.tem_retorno /\ resposta.status = "OK"
       /\ resposta.registros # <<>>
    THEN 1..MaxPaginasDelta ELSE {0}

\* An incremental function that stores the new timestamp whatever the answer.
processar_delta_sempre_atualiza(e, resposta, ok1, falhos) ==
  LET atualizado ==
        salvar_progresso_db(progresso, ok1, CHAVE_TIMESTAMP(e), novo_timestamp)
      falhou ==
        \/ resposta.erro
        \/ ~resposta.tem_retorno
        \/ /\ resposta.status = "Erro"
           /\ extrair_codigo_erro_api(resposta) \notin CodigosNenhumRegistro
  IN  IF falhou
        THEN [sucesso |-> FALSE, prog |-> atualizado, lin |-> linhas[e], detalhes |-> 0]
      ELSE IF resposta.status = "Erro"
        THEN [sucesso |-> TRUE, prog |-> atualizado, lin |-> linhas[e], detalhes |-> 0]
      ELSE [sucesso |-> TRUE, prog |-> atualizado,
            lin |-> linhas[e] \cup (Ids(resposta.registros) \ falhos),
            detalhes |-> Len(resposta.registros)]

\* buscar_e_gravar_produtos_incremental (and buscar_e_gravar_pedidos_incremental)
\* on the answer to the delta listing.  The result:
\*   sucesso   what the function returns as success
\*   prog      controle_progresso afterwards
\*   lin       the entity's committed rows afterwards
\*   detalhes  the number of records whose detail was requested
processar_delta(e, resposta, ok1, falhos) ==
  LET semGravar == [sucesso |-> FALSE, prog |-> progresso, lin |-> linhas[e],
                    detalhes |-> 0]
      atualizado ==
        salvar_progresso_db(progresso, ok1, CHAVE_TIMESTAMP(e), novo_timestamp)
  IN  IF resposta.erro \/ ~resposta.tem_retorno THEN semGravar
      ELSE IF resposta.status = "Erro" THEN
        IF extrair_codigo_erro_api(resposta) \in CodigosNenhumRegistro
          THEN [sucesso |-> TRUE, prog |-> atualizado, lin |-> linhas[e], detalhes |-> 0]
          ELSE semGravar
      ELSE
        [sucesso |-> TRUE, prog |-> atualizado,
         lin |-> linhas[e] \cup (Ids(resposta.registros) \ falhos),
         detalhes |-> Len(resposta.registros)]

\* The single request the function makes carries no page number: the answer
\* is the first of the paginas pages of the provider's delta listing.
incremental(e) ==
  /\ pc = PcIncremental(e)
  /\ \E resposta \in RespostasDelta(e), ok1 \in BOOLEAN :
       \E falhos \in SUBSET Ids(resposta.registros), paginas \in PaginasDelta(resposta) :
         LET r == processar_delta(e, resposta, ok1, falhos)
             n == (IF r.sucesso THEN 0 ELSE 1) + (IF ok1 THEN 0 ELSE 1)
                    + Cardinality(falhos)
         IN  /\ ~r.sucesso => ok1
             /\ falhas + n <= MaxFalhas
             /\ falhas' = falhas + n
             /\ progresso' = r.prog
             /\ linhas' = [linhas EXCEPT ![e] = r.lin]
             /\ deltas' = [deltas EXCEPT ![e] = @ + 1]
             /\ eventos' = eventos \cup {e}
             /\ ult' = [x \in Paginadas |->
                          IF x = e
                            THEN [resp |-> "delta", pagina |-> paginas,
                                  detalhes |-> r.detalhes, falhou |-> FALSE,
                                  falhos |-> falhos,
                                  antes |-> IF r.detalhes > 0 THEN linhas[e] ELSE {}]
                            ELSE SemResposta]
             /\ Retornar(e, r.sucesso, ~r.sucesso)
  /\ UNCHANGED <<config, execucao, listagens, inicio, fim_visto, destino, externos>>

buscar_e_gravar_produtos_incremental == incremental("produtos")
buscar_e_gravar_pedidos_incremental == incremental("pedidos")

Next ==
  \/ main_inicio
  \/ sincronizar_categorias
  \/ buscar_e_gravar_produtos
  \/ buscar_e_gravar_produtos_carga_completa
  \/ buscar_e_gravar_produtos_incremental
  \/ sincronizar_vendedores
  \/ buscar_e_gravar_pedidos_e_itens
  \/ buscar_e_gravar_pedidos_carga_completa
  \/ buscar_e_gravar_pedidos_incremental

Spec == Init /\ [][Next]_vars

\* The job as one sequential process in which every call returns: a step
\* that can be taken is taken.
SpecTermina == Init /\ [][Next]_vars /\ WF_vars(Next)

\* ------------------------------------------------------------ data tables
\* The write operations on the data tables, one provider record (or one
\* category or seller listing) at a time.  Values: an id of 0 is a key that is
\* absent, None, "" or "0" (what the code tests with "not x" and x == "0"), and
\* NULL in a column; the name "" is a name that is absent or empty.  Only the
\* columns the code's decisions and the constraints depend on are kept; data
\* is data_atualizacao.
Nomes == {"", "n"}
IdsProvedor == 1..MaxId

programa ==
  <<progresso, linhas, max_lotes, paginas_por_lote, num_paginas, pc, execucao,
    lote_atual, pagina_atual, lotes_processados, paginas_processadas, falhas,
    listagens, deltas, eventos, retornou, resultado, inicio, fim_visto, ult>>

IdsDe(tabela) == {r.id : r \in tabela}

\* An INSERT that keeps the row already there.
Upsert_sem_conflito(tabela, linha) == tabela \cup {linha}

\* An INSERT ... ON CONFLICT (id) DO NOTHING.
Upsert_mantem(tabela, linha) ==
  IF linha.id \in IdsDe(tabela) THEN tabela ELSE tabela \cup {linha}

\* INSERT ... ON CONFLICT (id) DO UPDATE SET ..., data_atualizacao = CURRENT_TIMESTAMP
Upsert(tabela, linha) == {r \in tabela : r.id # linha.id} \cup {linha}

\* FOREIGN KEY (coluna) REFERENCES tabela: NULL, or the id of a row
ChaveEstrangeira(id, ids) == id = 0 \/ id \in ids

\* What a write operation returns: the committed tables and True or False.
Gravado(banco) == [db |-> banco, sucesso |-> TRUE]
NaoGravado(banco) == [db |-> banco, sucesso |-> FALSE]

\* The answers to a request for a list or for a detail:
\*   "erro"            the request failed, or the answer has no "retorno"
\*   "nao_encontrado"  status "Erro" (as for a record the provider no longer has)
\*   "ok"              the data asked for, in the field dados
RespostaDados(tipo, dados) == [tipo |-> tipo, dados |-> dados]

\* A node of the category tree: filhos are the nodes nested in it.
No(id, nome, idPai, filhos) ==
  [id |-> id, nome |-> nome, idPai |-> idPai, filhos |-> filhos]

\* The ids of the nodes of a tree that have an id and a name, at any depth.
NosDaArvore(categorias) ==
  LET nos == {categorias[i] : i \in DOMAIN categorias}
               \cup UNION {{categorias[i].filhos[j] : j \in DOMAIN categorias[i].filhos} :
                             i \in DOMAIN categorias}
  IN  {n.id : n \in {m \in nos : m.id # 0 /\ m.nome # ""}}

\* The loop of sincronizar_categorias over the list it got, from element i on,
\* and the commit: the loop reads id, nome and idPai of the elements of the
\* list and nothing nested in them.  falha: an execute or the commit raises.
RECURSIVE gravar_categorias(_, _, _, _)
gravar_categorias(tab, categorias, i, falha) ==
  IF i > Len(categorias) THEN [ok |-> ~falha, tab |-> tab]
  ELSE
    LET categoria == categorias[i]
        id_categoria_pai == categoria.idPai
    IN  IF categoria.id = 0 \/ categoria.nome = ""
          THEN gravar_categorias(tab, categorias, i + 1, falha)
        ELSE IF ~ChaveEstrangeira(id_categoria_pai, IdsDe(tab) \cup {categoria.id})
          THEN [ok |-> FALSE, tab |-> tab]
        ELSE gravar_categorias(
               Upsert(tab, [id |-> categoria.id, nome |-> categoria.nome,
                            pai |-> id_categoria_pai, data |-> relogio]),
               categorias, i + 1, falha)

\* A categories sync that leaves the rows written before a failure.
categorias_sem_rollback(banco, resposta, falha) ==
  IF resposta.tipo # "ok" THEN NaoGravado(banco)
  ELSE IF resposta.dados = <<>> THEN Gravado(banco)
  ELSE
    LET r == gravar_categorias(banco.categorias, resposta.dados, 1, falha)
    IN  IF r.ok THEN Gravado([banco EXCEPT !.categorias = r.tab])
        ELSE NaoGravado([banco EXCEPT !.categorias = r.tab])

\* sincronizar_categorias on the tables: one transaction for the whole list.
categorias_no_destino(banco, resposta, falha) ==
  IF resposta.tipo # "ok" THEN NaoGravado(banco)
  ELSE IF resposta.dados = <<>> THEN Gravado(banco)
  ELSE
    LET r == gravar_categorias(banco.categorias, resposta.dados, 1, falha)
    IN  IF r.ok THEN Gravado([banco EXCEPT !.categorias = r.tab])
        ELSE NaoGravado(banco)

\* buscar_e_gravar_detalhes_produto(conn, id_produto): the detail request and
\* the upsert of the product in a transaction of its own.  The name is
\* produto.get('nome', ''): the function has no test on it.
buscar_e_gravar_detalhes_produto(banco, id_produto, resposta, falha) ==
  IF resposta.tipo # "ok" THEN NaoGravado(banco)
  ELSE
    LET produto == resposta.dados
        id_categoria == produto.idCategoria
    IN  IF falha \/ ~ChaveEstrangeira(id_categoria, IdsDe(banco.categorias))
          THEN NaoGravado(banco)
        ELSE Gravado([banco EXCEPT !.produtos =
                        Upsert(@, [id |-> id_produto, nome |-> produto.nome,
                                   categoria |-> id_categoria, data |-> relogio])])

\* The body of "for produto in produtos_pagina": a record without id is
\* skipped, the others go to buscar_e_gravar_detalhes_produto.
produto_listado(banco, id_produto, resposta, falha) ==
  IF id_produto = 0 THEN NaoGravado(banco)
  ELSE buscar_e_gravar_detalhes_produto(banco, id_produto, resposta, falha)

\* The loop of sincronizar_vendedores over the sellers, and the commit.
RECURSIVE gravar_vendedores(_, _, _, _)
gravar_vendedores(tab, vendedores, i, falha) ==
  IF i > Len(vendedores) THEN [ok |-> ~falha, tab |-> tab]
  ELSE
    LET vendedor == vendedores[i]
    IN  IF vendedor.id = 0 \/ vendedor.nome = ""
          THEN gravar_vendedores(tab, vendedores, i + 1, falha)
        ELSE gravar_vendedores(
               Upsert(tab, [id |-> vendedor.id, nome |-> vendedor.nome,
                            data |-> relogio]),
               vendedores, i + 1, falha)

\* "if tipo_contato == 'V'"
EhVendedor(contato) == contato.tipo = "V"

\* sincronizar_vendedores on the tables: the contacts of type 'V', in one
\* transaction.
vendedores_no_destino(banco, resposta, falha) ==
  IF resposta.tipo # "ok" THEN NaoGravado(banco)
  ELSE
    LET vendedores == SelectSeq(resposta.dados, EhVendedor)
    IN  IF vendedores = <<>> THEN Gravado(banco)
        ELSE
          LET r == gravar_vendedores(banco.vendedores, vendedores, 1, falha)
          IN  IF r.ok THEN Gravado([banco EXCEPT !.vendedores = r.tab])
              ELSE NaoGravado(banco)

\* id_item = f"{id_pedido}_{item.get('sequencia', '')}"
IdItem(id_pedido, item) == <<id_pedido, item.sequencia>>

\* The loop "for item in itens" from item k on: plain INSERTs, which the
\* primary key and the foreign key to produtos can refuse.
RECURSIVE inserir_itens(_, _, _, _, _)
inserir_itens(tab, ids_produtos, id_pedido, itens, k) ==
  IF k > Len(itens) THEN [ok |-> TRUE, tab |-> tab]
  ELSE
    LET item == itens[k]
        id_item == IdItem(id_pedido, item)
    IN  IF id_item \in IdsDe(tab) \/ ~ChaveEstrangeira(item.id_produto, ids_produtos)
          THEN [ok |-> FALSE, tab |-> tab]
        ELSE inserir_itens(
               tab \cup {[id |-> id_item, pedido |-> id_pedido,
                          produto |-> item.id_produto, data |-> relogio]},
               ids_produtos, id_pedido, itens, k + 1)

\* buscar_e_gravar_detalhes_pedido(conn, id_pedido): the detail request, then in
\* one transaction the upsert of the order and, "if itens", the DELETE of the
\* order's items and the INSERT of the incoming ones; commit, or rollback when
\* a statement or the commit raises (falha).
buscar_e_gravar_detalhes_pedido(banco, id_pedido, resposta, falha) ==
  IF resposta.tipo # "ok" THEN NaoGravado(banco)
  ELSE
    LET pedido == resposta.dados
        itens == pedido.itens
        outros == {r \in banco.itens_pedido : r.pedido # id_pedido}
        r == IF itens # <<>>
               THEN inserir_itens(outros, IdsDe(banco.produtos), id_pedido, itens, 1)
               ELSE [ok |-> TRUE, tab |-> banco.itens_pedido]
    IN  IF falha \/ ~ChaveEstrangeira(pedido.id_vendedor, IdsDe(banco.vendedores))
             \/ ~r.ok
          THEN NaoGravado(banco)
        ELSE Gravado([banco EXCEPT
                        !.pedidos = Upsert(@, [id |-> id_pedido,
                                               vendedor |-> pedido.id_vendedor,
                                               data |-> relogio]),
                        !.itens_pedido = r.tab])

\* The body of "for pedido in pedidos_pagina": a record without id is skipped.
pedido_listado(banco, id_pedido, resposta, falha) ==
  IF id_pedido = 0 THEN NaoGravado(banco)
  ELSE buscar_e_gravar_detalhes_pedido(banco, id_pedido, resposta, falha)

\* --- the inputs
\* Category lists: none; one top-level node, with or without id and name, and
\* with or without a node nested in it; two top-level nodes, the second one
\* top-level or with the first as idPai.
ArvoresCategorias ==
  {<<>>}
    \cup UNION {{<<No(i, nm, 0, <<>>)>> : nm \in Nomes} : i \in 0..MaxId}
    \cup UNION {{<<No(i, "n", 0, <<No(j, "n", i, <<>>)>>)>> : j \in IdsProvedor \ {i}} :
                  i \in IdsProvedor}
    \cup UNION {UNION {{<<No(i, nm, 0, <<>>), No(j, "n", pai, <<>>)>> :
                          nm \in Nomes, pai \in {0, i}} :
                         j \in IdsProvedor \ {i}} :
                  i \in IdsProvedor}

RespostasDetalheProduto ==
  {RespostaDados("erro", <<>>), RespostaDados("nao_encontrado", <<>>)}
    \cup {RespostaDados("ok", [nome |-> nm, idCategoria |-> c]) :
            nm \in Nomes, c \in 0..MaxId}

Contato(id, nome, tipo) == [id |-> id, nome |-> nome, tipo |-> tipo]

ListasContatos ==
  {<<>>}
    \cup {<<Contato(i, nm, t)>> : i \in 0..MaxId, nm \in Nomes, t \in {"V", "C"}}
    \cup UNION {{<<Contato(i, nm, "V"), Contato(j, "n", "V")>> :
                   nm \in Nomes, j \in IdsProvedor \ {i}} : i \in IdsProvedor}

Item(sequencia, id_produto) == [sequencia |-> sequencia, id_produto |-> id_produto]

\* Item lists: a prefix of the sequence numbers 1, 2, ..., or one sequence
\* number twice.
ListasItens ==
  UNION {{[k \in 1..n |-> Item(k, p)] : n \in 0..MaxItens} : p \in 0..1}
    \cup {<<Item(1, p), Item(1, p)>> : p \in 0..1}

RespostasDetalhePedido ==
  {RespostaDados("erro", <<>>), RespostaDados("nao_encontrado", <<>>)}
    \cup {RespostaDados("ok", [id_vendedor |-> v, itens |-> its]) :
            v \in 0..1, its \in ListasItens}

\* --- the actions
\* The frame of a write operation: db and the clock move, op keeps the input,
\* the result and the tables as they were.
Operar(tipo, id, resposta, falha, r) ==
  /\ relogio < MaxOperacoes
  /\ db' = r.db
  /\ relogio' = relogio + 1
  /\ op' = [tipo |-> tipo, id |-> id, resposta |-> resposta, falha |-> falha,
            sucesso |-> r.sucesso, antes |-> db]
  /\ UNCHANGED <<programa, externos>>

\* A transient failure is drawn only where a statement is executed.
FalhasPossiveis(resposta) == IF resposta.tipo = "ok" THEN BOOLEAN ELSE {FALSE}

destino_categorias ==
  \E resposta \in {RespostaDados("erro", <<>>)}
                    \cup {RespostaDados("ok", a) : a \in ArvoresCategorias} :
    \E falha \in FalhasPossiveis(resposta) :
      LET r == categorias_no_destino(db, resposta, falha)
      IN  /\ Operar("categorias", 0, resposta, falha, r)
          /\ arvore' = IF r.sucesso THEN resposta.dados ELSE arvore

destino_produto ==
  \E id_produto \in 0..MaxId, resposta \in RespostasDetalheProduto :
    \E falha \in FalhasPossiveis(resposta) :
      /\ id_produto = 0 => resposta.tipo = "erro"
      /\ Operar("produto", id_produto, resposta, falha,
                produto_listado(db, id_produto, resposta, falha))
      /\ UNCHANGED arvore

destino_vendedores ==
  \E resposta \in {RespostaDados("erro", <<>>)}
                    \cup {RespostaDados("ok", l) : l \in ListasContatos} :
    \E falha \in FalhasPossiveis(resposta) :
      /\ Operar("vendedores", 0, resposta, falha,
                vendedores_no_destino(db, resposta, falha))
      /\ UNCHANGED arvore

destino_pedido ==
  \E id_pedido \in 0..MaxId, resposta \in RespostasDetalhePedido :
    \E falha \in FalhasPossiveis(resposta) :
      /\ id_pedido = 0 => resposta.tipo = "erro"
      /\ Operar("pedido", id_pedido, resposta, falha,
                pedido_listado(db, id_pedido, resposta, falha))
      /\ UNCHANGED arvore

\* The tables start empty and the job itself stands still.
InitDestino ==
  /\ Init
  /\ max_lotes = 1
  /\ paginas_por_lote = 1
  /\ num_paginas = [e \in Paginadas |-> 0]

NextDestino ==
  \/ destino_categorias
  \/ destino_produto
  \/ destino_vendedores
  \/ destino_pedido

SpecDestino == InitDestino /\ [][NextDestino]_vars

\* --- the contact listing of the provider
\* The provider keeps its contacts in listing pages. A first page is any of the
\* contact lists; the pages after it hold one contact with id and name each.
PaginasSeguintes ==
  {<<Contato(i, "n", t)>> : i \in IdsProvedor, t \in {"V", "C"}}

RECURSIVE ColecoesAte(_)
ColecoesAte(n) ==
  IF n = 0 THEN {<<>>}
  ELSE IF n = 1 THEN {<<>>} \cup {<<l>> : l \in ListasContatos \ {<<>>}}
  ELSE ColecoesAte(n - 1)
         \cup {Append(c, p) : c \in {d \in ColecoesAte(n - 1) : Len(d) = n - 1},
                              p \in PaginasSeguintes}

ColecoesContatos == ColecoesAte(MaxPaginasContatos)

\* fazer_requisicao_tiny("contatos.pesquisa.php", {"pesquisa": ""}): the
\* request names no page, and the provider answers with its first one.
pesquisar_contatos(colecao) ==
  IF colecao = <<>> THEN <<>> ELSE colecao[1]

\* sincronizar_vendedores against the paged listing: the one request, then
\* the loop over what it returned.
destino_contatos ==
  \E colecao \in ColecoesContatos, erro \in BOOLEAN :
    LET resposta == IF erro THEN RespostaDados("erro", <<>>)
                    ELSE RespostaDados("ok", pesquisar_contatos(colecao))
    IN  \E falha \in FalhasPossiveis(resposta) :
          LET r == vendedores_no_destino(db, resposta, falha)
          IN  /\ relogio < MaxOperacoes
              /\ db' = r.db
              /\ relogio' = relogio + 1
              /\ op' = [tipo |-> "contatos", id |-> 0, resposta |-> resposta,
                        falha |-> falha, sucesso |-> r.sucesso, antes |-> db,
                        colecao |-> colecao]
              /\ UNCHANGED <<programa, externos, arvore>>

NextContatos == destino_contatos

SpecContatos == InitDestino /\ [][NextContatos]_vars

\* ---------------------------------------------------------- request helper
\* fazer_requisicao_tiny(endpoint, params), one iteration of its loop at a
\* time.  The HTTP exchange of an attempt ends in one of three ways:
\*   "json"      requests.post returns, raise_for_status passes and
\*               response.json() decodes the body
\*   "nao_json"  the same, but response.json() raises json.JSONDecodeError
\*   "falha"     requests.post or raise_for_status raises a RequestException
\*               (no connection, timeout, HTTP status 4xx or 5xx)
\* corpo stands for the body the provider sent in that attempt.
max_tentativas == 3

Endpoints ==
  {"categoria.obter.arvore.php", "produtos.pesquisa.php", "produto.obter.php",
   "produto.pesquisar.alteracoes.php", "contatos.pesquisa.php",
   "pedidos.pesquisa.php", "pedido.obter.php"}

DesfechosTentativa == {"json", "nao_json", "falha"}
Corpos == 1..2

\* What the function returns.
RetornoJson(corpo) == [tipo |-> "json", corpo |-> corpo]
RetornoErroJson == [tipo |-> "erro_json", corpo |-> 0]
RetornoErroTentativas == [tipo |-> "erro_tentativas", corpo |-> 0]
RetornoNone == [tipo |-> "None", corpo |-> 0]

\* "while tentativas < max_tentativas"
ContinuaLaco(tentativas) == tentativas < max_tentativas

\* A helper that waits and tries again after every failed attempt.
OutraTentativa_sempre(tentativas) == TRUE

\* "if tentativas < max_tentativas" after a failed attempt: wait and go round
\* the loop again; else return the error dict.
OutraTentativa(tentativas) == tentativas < max_tentativas

\* The call: tentativas = 0 and the loop is entered.
requisicao_chamar ==
  /\ req.pc \in {"parado", "retornou"}
  /\ req.chamadas < MaxChamadas
  /\ \E endpoint \in Endpoints :
       req' = [SemRequisicao EXCEPT !.pc = "laco", !.endpoint = endpoint,
                                    !.chamadas = req.chamadas + 1]
  /\ UNCHANGED <<programa, destino, cx, queda, inst, alt>>

\* One evaluation of the loop condition and, when it is true, one attempt.
\* When the condition is false the function ends without a return statement.
requisicao_tentativa ==
  /\ req.pc = "laco"
  /\ IF ~ContinuaLaco(req.tentativas)
       THEN req' = [req EXCEPT !.pc = "retornou", !.retorno = RetornoNone]
       ELSE \E d \in DesfechosTentativa, corpo \in Corpos :
              LET respostas == Append(req.respostas, [desfecho |-> d, corpo |-> corpo])
                  tentativas == req.tentativas + 1
              IN  req' =
                    IF d = "json"
                      THEN [req EXCEPT !.pc = "retornou", !.respostas = respostas,
                                       !.retorno = RetornoJson(corpo)]
                    ELSE IF d = "nao_json"
                      THEN [req EXCEPT !.pc = "retornou", !.respostas = respostas,
                                       !.retorno = RetornoErroJson]
                    ELSE IF OutraTentativa(tentativas)
                      THEN [req EXCEPT !.tentativas = tentativas,
                                       !.respostas = respostas]
                    ELSE [req EXCEPT !.pc = "retornou", !.tentativas = tentativas,
                                     !.respostas = respostas,
                                     !.retorno = RetornoErroTentativas]
  /\ UNCHANGED <<programa, destino, cx, queda, inst, alt>>

NextRequisicao ==
  \/ requisicao_chamar
  \/ requisicao_tentativa

\* The job and the tables stand still.
SpecRequisicao == InitDestino /\ [][NextRequisicao]_vars

\* ------------------------------------------------------------- connections
\* One invocation of main() after another, with the database connections it
\* opens.  main()'s variable conn is
\*   "None"      no connection object
\*   "aberta"    a connection the server serves (conn.closed == 0)
\*   "quebrada"  the server or the network dropped it and no statement has
\*               been tried since: conn.closed is still 0, the next statement
\*               raises and leaves it "fechada"
\*   "fechada"   conn.closed != 0
\* locais counts, up to 2, the connections that ler_progresso_db and
\* salvar_progresso_db opened for themselves and that are still open.  The provider answers
\* regularly here: PaginasConexao pages of records, then the end-of-pages
\* code; the batch limits (10 and 3 in the source) are not reached.
MAX_DB_RECONNECT_ATTEMPTS == 3

\* The timestamp a stage stores (the time of the call; one value here).
AGORA == 1

\* The default "N/A" of the reads main() makes for its log.
NA == -2

\* conectar_db(attempt), when the server accepts connections from attempt
\* number disponivel_em on: TRUE is a connection, FALSE is None.
RECURSIVE conectar_db(_, _)
conectar_db(attempt, disponivel_em) ==
  IF attempt >= disponivel_em THEN TRUE
  ELSE IF attempt < MAX_DB_RECONNECT_ATTEMPTS
    THEN conectar_db(attempt + 1, disponivel_em)
  ELSE FALSE

\* The server accepts at once, on the last attempt, or after it.
Disponibilidades ==
  {1, MAX_DB_RECONNECT_ATTEMPTS, MAX_DB_RECONNECT_ATTEMPTS + 1}

\* What the environment decides for one call of a progress-store function:
\* when the server accepts connections, whether the SQL runs, and whether a
\* connection the function opened is closed when the function returns (the
\* function keeps it in a local variable and never closes it itself).
Ambientes == [disponivel_em : Disponibilidades, sql_ok : BOOLEAN, coletada : BOOLEAN]

\* A progress-store function that works on the connection it was given.
garantir_conexao_sem_reconexao(w, disponivel_em) ==
  IF w.conn = "None" THEN "None" ELSE "principal"

\* conn = garantir_conexao(conn) inside a progress-store function: the
\* connection the function goes on with is main()'s ("principal"), one it
\* opened itself ("local"), or None.
garantir_conexao(w, disponivel_em) ==
  IF w.conn \in {"None", "fechada"}
    THEN (IF conectar_db(1, disponivel_em) THEN "local" ELSE "None")
    ELSE "principal"

\* The choices that make a difference in world w.
AmbientesDe(w) ==
  {a \in Ambientes :
     LET alvo == garantir_conexao(w, a.disponivel_em)
     IN  /\ w.conn \in {"aberta", "quebrada"} => a.disponivel_em = 1
         /\ alvo # "local" => a.coletada
         /\ (alvo = "None" \/ w.conn = "quebrada") => a.sql_ok}

\* cursor.execute and conn.commit of a progress-store function succeed.
SqlOk(w, alvo, amb) ==
  /\ alvo # "None"
  /\ amb.sql_ok
  /\ alvo = "principal" => w.conn = "aberta"

\* The connections when a progress-store function has returned.
AposOperacao(w, alvo, amb) ==
  [w EXCEPT !.conn = IF alvo = "principal" /\ @ = "quebrada" THEN "fechada" ELSE @,
            !.locais = IF alvo = "local" /\ ~amb.coletada /\ @ < 2 THEN @ + 1 ELSE @,
            !.esgotada = @ \/ alvo = "None"]

\* The record the history keeps of a call of a progress-store function.
RegistroOperacao(tipo, chave, valor, w, alvo, amb, valor_lido, sucesso, depois) ==
  [tipo |-> tipo, chave |-> chave, valor |-> valor, conn_antes |-> w.conn,
   alvo |-> alvo, valor_lido |-> valor_lido, sucesso |-> sucesso,
   antes |-> w.prog, depois |-> depois]

\* ler_progresso_db(conn, chave, valor_padrao) with its connection handling.
ler_progresso_conexao(w, chave, valor_padrao, amb) ==
  LET alvo == garantir_conexao(w, amb.disponivel_em)
      ok == SqlOk(w, alvo, amb)
      valor_lido == IF ok /\ w.prog[chave] # NULO THEN w.prog[chave] ELSE valor_padrao
  IN  [valor_lido |-> valor_lido,
       w |-> [AposOperacao(w, alvo, amb) EXCEPT !.ops =
                Append(@, RegistroOperacao("ler", chave, valor_padrao, w, alvo, amb,
                                           valor_lido, ok, w.prog))]]

\* salvar_progresso_db(conn, chave, valor) with its connection handling.
salvar_progresso_conexao(w, chave, valor, amb) ==
  LET alvo == garantir_conexao(w, amb.disponivel_em)
      ok == SqlOk(w, alvo, amb)
      depois == IF ok THEN [w.prog EXCEPT ![chave] = valor] ELSE w.prog
  IN  [sucesso |-> ok,
       w |-> [AposOperacao(w, alvo, amb) EXCEPT
                !.prog = depois,
                !.ops = Append(@, RegistroOperacao("salvar", chave, valor, w, alvo, amb,
                                                   NULO, ok, depois))]]

\* The statements of a stage (conn.cursor(), cursor.execute, conn.commit) on
\* main()'s connection: the stages do not call garantir_conexao.
AposGravacao(w) ==
  [w EXCEPT !.conn = IF @ = "quebrada" THEN "fechada" ELSE @]

\* A call of fazer_requisicao_tiny; req_apos records one made after
\* conectar_db gave up.
Requisitar(w) ==
  [w EXCEPT !.req_apos = @ \/ w.esgotada]

\* main() calls the function of a stage; etapa_apos records the first one
\* called after conectar_db gave up.
IniciarEtapa(w, etapa) ==
  [w EXCEPT !.etapa_apos = IF w.esgotada /\ @ = "" THEN etapa ELSE @]

\* Where main() goes when a stage has returned: its returns lead to finally.
ProximoComFinally(proximo) == IF proximo = "fim" THEN "finally" ELSE proximo

\* main() up to sincronizar_categorias: conectar_db, and the creation of the
\* tables, which succeeds.
cx_main_inicio ==
  /\ cx.pc \in {"parado", "fim"}
  /\ cx.execucao < MaxExecucoesConexao
  /\ \E d \in Disponibilidades :
       LET ok == conectar_db(1, d)
       IN  cx' = [cx EXCEPT !.pc = IF ok THEN "categorias" ELSE "fim",
                            !.execucao = @ + 1,
                            !.conn = IF ok THEN "aberta" ELSE "None",
                            !.locais = 0, !.pagina = 0, !.esgotada = FALSE,
                            !.req_apos = FALSE, !.etapa_apos = "", !.ops = <<>>]
  /\ UNCHANGED <<programa, destino, req, queda, inst, alt>>

\* The server or the network drops main()'s connection.
cx_perder ==
  /\ cx.pc \notin {"parado", "fim", "finally"}
  /\ cx.conn = "aberta"
  /\ cx' = [cx EXCEPT !.conn = "quebrada", !.ops = <<>>]
  /\ UNCHANGED <<programa, destino, req, queda, inst, alt>>

\* sincronizar_categorias and sincronizar_vendedores: the request and, when
\* it brings records, the statements on main()'s connection.  main() logs
\* the result and goes on.
cx_sincronizar(etapa) ==
  /\ cx.pc = etapa
  /\ \E comRegistros \in BOOLEAN :
       LET w1 == Requisitar(IniciarEtapa([cx EXCEPT !.ops = <<>>], etapa))
           w2 == IF comRegistros THEN AposGravacao(w1) ELSE w1
       IN  cx' = [w2 EXCEPT !.pc = IF etapa = "categorias" THEN "leituras"
                                   ELSE main_apos_vendedores(TRUE)]
  /\ UNCHANGED <<programa, destino, req, queda, inst, alt>>

cx_sincronizar_categorias == cx_sincronizar("categorias")
cx_sincronizar_vendedores == cx_sincronizar("vendedores")

\* The two reads main() makes for its log, before the products and at the end.
cx_leituras ==
  /\ cx.pc \in {"leituras", "leituras_finais"}
  /\ LET w0 == [cx EXCEPT !.ops = <<>>]
     IN  \E a1 \in AmbientesDe(w0) :
           LET r1 == ler_progresso_conexao(w0, CHAVE_PAGINA_PRODUTOS, NA, a1)
           IN  \E a2 \in AmbientesDe(r1.w) :
                 LET r2 == ler_progresso_conexao(r1.w, CHAVE_TIMESTAMP_PRODUTOS, NA, a2)
                 IN  cx' = [r2.w EXCEPT !.pc = IF cx.pc = "leituras" THEN "produtos"
                                               ELSE "finally"]
  /\ UNCHANGED <<programa, destino, req, queda, inst, alt>>

\* Where main() goes after the stage of e returned (sucesso, restantes).
ProximoDaEtapa(e, sucesso, restantes) ==
  IF e = "produtos"
    THEN ProximoComFinally(main_apos_produtos(sucesso, restantes, 1))
    ELSE "leituras_finais"

\* buscar_e_gravar_produtos / buscar_e_gravar_pedidos_e_itens: the read of the
\* timestamp; with a timestamp the incremental function (the delta request,
\* the detail request and the statements of each record, the write of the
\* timestamp), without one the read of the page cursor of the backfill.
cx_buscar_e_gravar(e) ==
  /\ cx.pc = e
  /\ LET w0 == IniciarEtapa([cx EXCEPT !.ops = <<>>], e)
     IN  \E a1 \in AmbientesDe(w0) :
           LET r1 == ler_progresso_conexao(w0, CHAVE_TIMESTAMP(e), NULO, a1)
           IN  IF ModoSincronizacao(r1.valor_lido) = "incremental"
                 THEN \E comRegistros \in BOOLEAN :
                        LET w2 == IF comRegistros
                                    THEN AposGravacao(Requisitar(r1.w))
                                    ELSE Requisitar(r1.w)
                        IN  \E a2 \in AmbientesDe(w2) :
                              LET r2 == salvar_progresso_conexao(
                                          w2, CHAVE_TIMESTAMP(e), AGORA, a2)
                              IN  cx' = [r2.w EXCEPT !.pc = ProximoDaEtapa(e, TRUE, FALSE)]
                 ELSE \E a2 \in AmbientesDe(r1.w) :
                        LET r2 == ler_progresso_conexao(r1.w, CHAVE_PAGINA(e), NULO, a2)
                        IN  cx' = [r2.w EXCEPT !.pc = PcCarga(e),
                                               !.pagina = PaginaInicial(r2.valor_lido)]
  /\ UNCHANGED <<programa, destino, req, queda, inst, alt>>

cx_buscar_e_gravar_produtos == cx_buscar_e_gravar("produtos")
cx_buscar_e_gravar_pedidos == cx_buscar_e_gravar("pedidos")

\* One iteration of the backfill's loop on page cx.pagina.  Past the last
\* page: the end-of-pages code, the two writes, return (True, False).  A page
\* of records: the products function opens a cursor, which raises on a closed
\* connection (the function saves the page and returns (False, True)); else
\* every record's detail is requested and written on main()'s connection, the
\* page is committed, and the next page is saved.
cx_carga_completa(e) ==
  /\ cx.pc = PcCarga(e)
  /\ LET p == cx.pagina
         w1 == Requisitar([cx EXCEPT !.ops = <<>>])
     IN  IF p > PaginasConexao THEN
           \E a1 \in AmbientesDe(w1) :
             LET r1 == salvar_progresso_conexao(w1, CHAVE_TIMESTAMP(e), AGORA, a1)
             IN  \E a2 \in AmbientesDe(r1.w) :
                   LET r2 == salvar_progresso_conexao(r1.w, CHAVE_PAGINA(e), VAZIO, a2)
                   IN  cx' = [r2.w EXCEPT !.pc = ProximoDaEtapa(e, TRUE, FALSE),
                                          !.pagina = 0]
         ELSE IF e = "produtos" /\ w1.conn = "fechada" THEN
           \E a1 \in AmbientesDe(w1) :
             LET r1 == salvar_progresso_conexao(w1, CHAVE_PAGINA(e), p, a1)
             IN  cx' = [r1.w EXCEPT !.pc = ProximoDaEtapa(e, FALSE, TRUE),
                                    !.pagina = 0]
         ELSE
           LET w2 == AposGravacao(w1)
           IN  \E a1 \in AmbientesDe(w2) :
                 LET r1 == salvar_progresso_conexao(w2, CHAVE_PAGINA(e),
                                                    ProximaPagina(p), a1)
                 IN  cx' = [r1.w EXCEPT !.pagina = ProximaPagina(p)]
  /\ UNCHANGED <<programa, destino, req, queda, inst, alt>>

cx_carga_completa_produtos == cx_carga_completa("produtos")
cx_carga_completa_pedidos == cx_carga_completa("pedidos")

\* main()'s finally: "if conn and conn.closed == 0: conn.close()".
cx_finally ==
  /\ cx.pc = "finally"
  /\ cx' = [cx EXCEPT !.pc = "fim", !.ops = <<>>,
                      !.conn = IF @ \in {"aberta", "quebrada"} THEN "fechada" ELSE @]
  /\ UNCHANGED <<programa, destino, req, queda, inst, alt>>

NextConexao ==
  \/ cx_main_inicio
  \/ cx_perder
  \/ cx_sincronizar_categorias
  \/ cx_leituras
  \/ cx_buscar_e_gravar_produtos
  \/ cx_carga_completa_produtos
  \/ cx_sincronizar_vendedores
  \/ cx_buscar_e_gravar_pedidos
  \/ cx_carga_completa_pedidos
  \/ cx_finally

SpecConexao == InitDestino /\ [][NextConexao]_vars

\* ------------------------------------------------------------------ kills
\* The backfill of one entity type, invocation after invocation, where the
\* process can be killed (SIGKILL, power loss) while the backfill runs.  The
\* stages main() runs before the backfill write neither its progress keys nor
\* its rows and are left out; so is the incremental function.
MaxMortes == 1
\* Invocations of each of the two concurrent instances.
MaxExecucoesInstancia == 2
\* Instants of the clock while the provider's products are altered.
MaxHora == 6

\* The rest of main()'s state, which these steps leave alone.
resto_queda ==
  <<max_lotes, paginas_por_lote, num_paginas, lote_atual, listagens, deltas,
    eventos, retornou, resultado, inicio, fim_visto, ult, destino, req, cx, inst, alt>>

\* A page is done when its listing was answered with its records and the
\* detail of every one of them was requested, or with an empty list.
PaginaFeita(resposta, r) ==
  \/ TipoResposta(resposta) = "vazia" /\ r.desfecho = "avanca"
  \/ /\ TipoResposta(resposta) = "registros"
     /\ r.desfecho = "avanca"
     /\ r.detalhes = Len(resposta.registros)

\* A new process: main() up to the backfill of e, that is the reads of the
\* timestamp and of the page cursor.  With a timestamp the stage is not a
\* backfill and the invocation is not followed further.
queda_iniciar(e) ==
  /\ pc \in {"parado", "fim"}
  /\ execucao < MaxExecucoes
  /\ \E okT, okP \in BOOLEAN :
       LET timestamp == ler_progresso_db(okT, CHAVE_TIMESTAMP(e), NULO)
           pagina_atual_str == ler_progresso_db(okP, CHAVE_PAGINA(e), NULO)
           n == (IF okT THEN 0 ELSE 1) + (IF okP THEN 0 ELSE 1)
           carga == ModoSincronizacao(timestamp) = "carga_completa"
       IN  /\ LeituraPodeFalhar(okT, CHAVE_TIMESTAMP(e))
           /\ LeituraPodeFalhar(okP, CHAVE_PAGINA(e))
           /\ ~carga => okP
           /\ falhas + n <= MaxFalhas
           /\ falhas' = falhas + n
           /\ pc' = IF carga THEN PcCarga(e) ELSE "fim"
           /\ pagina_atual' = IF carga THEN PaginaInicial(pagina_atual_str) ELSE 0
           /\ queda' = [queda EXCEPT
                          !.retomada = carga /\ queda.etapa = e,
                          !.etapa = IF carga /\ @ = e THEN e ELSE ""]
  /\ execucao' = execucao + 1
  /\ lotes_processados' = 0
  /\ paginas_processadas' = 0
  /\ UNCHANGED <<progresso, linhas, resto_queda>>

queda_iniciar_produtos == queda_iniciar("produtos")
queda_iniciar_pedidos == queda_iniciar("pedidos")

\* One iteration of the loops of the backfill, as in carga_completa; when the
\* function returns, so does main() sooner or later, without another write
\* of the entity's rows or keys.
queda_carga_completa(e) ==
  /\ pc = PcCarga(e)
  /\ \E resposta \in RespostasListagem(e, pagina_atual) :
       \E c \in EscolhasPagina(e, resposta) :
         LET r == processar_pagina(e, pagina_atual, resposta,
                                   c.ok1, c.ok2, c.modo, c.falhos)
             n == FalhasPagina(e, pagina_atual, resposta, c)
             pp == paginas_processadas + 1
             lp == lotes_processados + 1
             fimLote == ~(pp < PaginasPorLoteDe(e))
             limite == fimLote /\ lp >= MaxLotesDe(e)
             retorna == r.desfecho \in {"falha", "fim"} \/ limite
         IN  /\ falhas + n <= MaxFalhas
             /\ falhas' = falhas + n
             /\ progresso' = r.prog
             /\ linhas' = [linhas EXCEPT ![e] = r.lin]
             /\ queda' = [queda EXCEPT
                            !.retomada = FALSE, !.etapa = "",
                            !.completas[e] = IF PaginaFeita(resposta, r)
                                               THEN @ \cup {pagina_atual} ELSE @]
             /\ pc' = IF retorna THEN "fim" ELSE pc
             /\ pagina_atual' = IF retorna THEN 0 ELSE r.pagina
             /\ paginas_processadas' = IF retorna \/ fimLote THEN 0 ELSE pp
             /\ lotes_processados' =
                  IF retorna THEN 0 ELSE IF fimLote THEN lp ELSE lotes_processados
  /\ UNCHANGED <<execucao, resto_queda>>

queda_carga_completa_produtos == queda_carga_completa("produtos")
queda_carga_completa_pedidos == queda_carga_completa("pedidos")

\* The points of an iteration on page p at which a kill leaves different
\* committed data: before the first commit (0), after the commit of the
\* detail of the k-th record of the page, and, past the last page, between
\* the write of the timestamp and the write that clears the cursor (-1).
PontosDeQueda(e, p) ==
  IF p <= num_paginas[e] THEN 0..RegistrosPorPagina ELSE {0, -1}

\* The process is killed during the backfill of e.
queda_matar(e) ==
  /\ pc = PcCarga(e)
  /\ queda.mortes < MaxMortes
  /\ \E k \in PontosDeQueda(e, pagina_atual) :
       LET gravados == {RegistrosDaPagina(pagina_atual)[i] : i \in 1..k}
           prog == IF k = -1
                     THEN salvar_progresso_db(progresso, TRUE, CHAVE_TIMESTAMP(e),
                                              novo_timestamp)
                     ELSE progresso
       IN  /\ progresso' = prog
           /\ linhas' = [linhas EXCEPT ![e] = @ \cup gravados]
           /\ queda' = [queda EXCEPT !.mortes = @ + 1, !.etapa = e,
                                     !.retomada = FALSE,
                                     !.prog = prog,
                                     !.linhas = linhas[e] \cup gravados]
  /\ pc' = "fim"
  /\ pagina_atual' = 0
  /\ lotes_processados' = 0
  /\ paginas_processadas' = 0
  /\ UNCHANGED <<execucao, falhas, resto_queda>>

queda_matar_produtos == queda_matar("produtos")
queda_matar_pedidos == queda_matar("pedidos")

NextQueda ==
  \/ queda_iniciar_produtos
  \/ queda_carga_completa_produtos
  \/ queda_matar_produtos
  \/ queda_iniciar_pedidos
  \/ queda_carga_completa_pedidos
  \/ queda_matar_pedidos

SpecQueda == Init /\ [][NextQueda]_vars

\* ---------------------------------------------------------------- instances
\* Two instances of the job, each a process of its own with a connection of
\* its own, on the one database.  A step of an instance is what it does
\* between two moments at which the other instance can act: the reads at the
\* start, a listing request with what follows an answer without records, the
\* records of a page, the write of the page cursor.  Of main() only the
\* products stage in backfill mode is kept.
resto_inst == <<programa, destino, req, cx, queda, alt>>

\* A main() that runs only while no other instance does.
PodeIniciar_exclusivo(i) ==
  /\ inst.p[i].pc = "parado"
  /\ \A j \in Instancias \ {i} : inst.p[j].pc = "parado"

\* main() from its first statement to the products stage: a connection is
\* opened and the tables are set up; nothing is acquired, tested or waited
\* for that another running instance would hold.
PodeIniciar(i) == inst.p[i].pc = "parado"

\* The instance's own record after the changes f of one step.
Passo(i, f) == [inst EXCEPT !.p[i] = f]

\* An instance starts: the mode is chosen from the stored timestamp, and a
\* backfill reads the page cursor.  An incremental run is not followed.
inst_iniciar(i) ==
  /\ PodeIniciar(i)
  /\ inst.p[i].execucoes < MaxExecucoesInstancia
  /\ LET eu == inst.p[i]
         lida == inst.prog[CHAVE_PAGINA_PRODUTOS]
     IN  inst' =
           IF ModoSincronizacao(inst.prog[CHAVE_TIMESTAMP_PRODUTOS]) = "incremental"
             THEN Passo(i, [eu EXCEPT !.execucoes = @ + 1, !.feitas = {}])
             ELSE Passo(i, [eu EXCEPT !.pc = "listar", !.lida = lida,
                                      !.pagina_atual = PaginaInicial(lida),
                                      !.lotes_processados = 0,
                                      !.paginas_processadas = 0,
                                      !.execucoes = @ + 1, !.feitas = {}])
  /\ UNCHANGED resto_inst

\* The instance's record after a page was counted: the inner loop goes on,
\* the next batch starts, or the batch limit returns.
AposPaginaDaInstancia(eu) ==
  LET contada == [eu EXCEPT !.pagina_atual = ProximaPagina(@),
                            !.paginas_processadas = @ + 1]
  IN  IF contada.paginas_processadas < PAGINAS_POR_LOTE_PRODUTOS
        THEN [contada EXCEPT !.pc = "listar"]
      ELSE IF eu.lotes_processados + 1 < MAX_LOTES_PRODUTOS_POR_EXECUCAO
        THEN [contada EXCEPT !.pc = "listar", !.lotes_processados = @ + 1,
                             !.paginas_processadas = 0]
      ELSE [contada EXCEPT !.pc = "parado", !.lotes_processados = @ + 1]

\* The listing request of pagina_atual and the branches that need no record:
\* a failed request or a missing envelope stores the page and returns; the
\* end of the pages stores the timestamp, clears the cursor and returns; an
\* empty page stores the next page.  A page with records is kept for the next
\* step.
inst_listar(i) ==
  /\ inst.p[i].pc = "listar"
  /\ LET eu == inst.p[i]
         p == eu.pagina_atual
     IN  \E resposta \in RespostasListagem("produtos", p) :
           inst' =
             IF resposta.erro \/ (~verificar_fim_paginacao(resposta) /\ ~resposta.tem_retorno)
               THEN [Passo(i, [eu EXCEPT !.pc = "parado"]) EXCEPT
                       !.prog = salvar_progresso_db(@, TRUE, CHAVE_PAGINA_PRODUTOS, p)]
             ELSE IF verificar_fim_paginacao(resposta)
               THEN [Passo(i, [eu EXCEPT !.pc = "parado"]) EXCEPT
                       !.prog = salvar_progresso_db(
                                  salvar_progresso_db(@, TRUE, CHAVE_TIMESTAMP_PRODUTOS, AGORA),
                                  TRUE, CHAVE_PAGINA_PRODUTOS, VAZIO)]
             ELSE IF resposta.registros = <<>>
               THEN [Passo(i, AposPaginaDaInstancia(eu)) EXCEPT
                       !.prog = salvar_progresso_db(@, TRUE, CHAVE_PAGINA_PRODUTOS,
                                                    ProximaPagina(p))]
             ELSE Passo(i, [eu EXCEPT !.pc = "gravar"])
  /\ UNCHANGED resto_inst

\* "for produto in produtos_pagina": the details of the page's records are
\* fetched and upserted, each with its own commit.
inst_gravar(i) ==
  /\ inst.p[i].pc = "gravar"
  /\ LET eu == inst.p[i]
     IN  inst' = [Passo(i, [eu EXCEPT !.pc = "salvar",
                                      !.feitas = @ \cup {eu.pagina_atual}]) EXCEPT
                    !.lin = @ \cup Ids(RegistrosDaPagina(eu.pagina_atual))]
  /\ UNCHANGED resto_inst

\* "pagina_atual += 1" and salvar_progresso_db(conn, CHAVE_PAGINA_PRODUTOS,
\* pagina_atual): the cursor is written from the instance's own page number.
inst_salvar(i) ==
  /\ inst.p[i].pc = "salvar"
  /\ LET eu == inst.p[i]
     IN  inst' = [Passo(i, AposPaginaDaInstancia(eu)) EXCEPT
                    !.prog = salvar_progresso_db(@, TRUE, CHAVE_PAGINA_PRODUTOS,
                                                 ProximaPagina(eu.pagina_atual))]
  /\ UNCHANGED resto_inst

NextInstancias ==
  \/ \E i \in Instancias : inst_iniciar(i)
  \/ \E i \in Instancias : inst_listar(i)
  \/ \E i \in Instancias : inst_gravar(i)
  \/ \E i \in Instancias : inst_salvar(i)

\* One batch of MaxPaginasPorLote pages per run, on a products collection of
\* MaxPaginasColecao pages.
InitInstancias ==
  /\ Init
  /\ max_lotes = 1
  /\ paginas_por_lote = MaxPaginasPorLote
  /\ num_paginas = [e \in Paginadas |-> IF e = "produtos" THEN MaxPaginasColecao ELSE 0]

SpecInstancias == InitInstancias /\ [][NextInstancias]_vars

\* ------------------------------------------------------- incremental stage
\* The incremental function of an entity type, invocation after invocation,
\* with the answer it got kept next to what it left in the progress store.
\* To the answers of RespostasDelta are added the error statuses whose
\* envelope has no codigo_erro: the regex finds no code, or code 14, in the
\* text.
RespostasDeltaComTexto(e) ==
  RespostasDelta(e) \cup {Resposta(FALSE, TRUE, "Erro", 0, t, <<>>) : t \in {0, 14}}

delta(e) ==
  /\ execucao <= MaxExecucoes
  /\ \E resposta \in RespostasDeltaComTexto(e), ok1 \in BOOLEAN :
       \E falhos \in SUBSET Ids(resposta.registros) :
         LET r == processar_delta(e, resposta, ok1, falhos)
         IN  /\ progresso' = r.prog
             /\ linhas' = [linhas EXCEPT ![e] = r.lin]
             /\ op' = [tipo |-> "delta", etapa |-> e, resposta |-> resposta,
                       sucesso |-> r.sucesso, antes |-> progresso]
  /\ execucao' = execucao + 1
  /\ UNCHANGED <<max_lotes, paginas_por_lote, num_paginas, pc, lote_atual,
                 pagina_atual, lotes_processados, paginas_processadas, falhas,
                 listagens, deltas, eventos, retornou, resultado, inicio,
                 fim_visto, ult, db, relogio, arvore, externos>>

delta_produtos == delta("produtos")
delta_pedidos == delta("pedidos")

\* Invocation 1 ended both backfills: the timestamps of instant 1 are stored
\* and the cursors cleared; invocation 2 is at its incremental stages.
InitDelta ==
  /\ db = BancoVazio
  /\ relogio = 0
  /\ op = SemOperacao
  /\ arvore = <<>>
  /\ req = SemRequisicao
  /\ cx = SemConexao
  /\ queda = SemQueda
  /\ inst = SemInstancias
  /\ alt = SemAlteracoes
  /\ progresso = [k \in Chaves |->
                    IF k \in {CHAVE_TIMESTAMP_PRODUTOS, CHAVE_TIMESTAMP_PEDIDOS}
                      THEN 1 ELSE VAZIO]
  /\ linhas = [e \in Paginadas |-> {}]
  /\ max_lotes = 1
  /\ paginas_por_lote = 1
  /\ num_paginas = [e \in Paginadas |-> MaxPaginasColecao]
  /\ pc = "parado"
  /\ execucao = 2
  /\ lote_atual = 1
  /\ pagina_atual = 0
  /\ lotes_processados = 0
  /\ paginas_processadas = 0
  /\ falhas = 0
  /\ listagens = [e \in Paginadas |-> <<>>]
  /\ deltas = [e \in Paginadas |-> 0]
  /\ eventos = {}
  /\ retornou = {}
  /\ resultado = [s \in Etapas |-> SemResultado]
  /\ inicio = [k \in Chaves |-> NULO]
  /\ fim_visto = [e \in Paginadas |-> 0]
  /\ ult = [e \in Paginadas |-> SemResposta]

NextDelta ==
  \/ delta_produtos
  \/ delta_pedidos

SpecDelta == InitDelta /\ [][NextDelta]_vars

\* --------------------------------------------------------------- alterations
\* Incremental runs of the products stage while the provider's products are
\* altered.  Every event has an instant of its own.
resto_alt == <<programa, destino, req, cx, queda, inst>>

\* A product is altered at the provider.
alt_alterar ==
  \E id \in IdsProvedor :
    /\ alt.hora < MaxHora
    /\ alt' = [alt EXCEPT !.alterado[id] = alt.hora, !.hora = @ + 1]
    /\ UNCHANGED resto_alt

\* produto.pesquisar.alteracoes.php with dataAlteracao = timestamp_ultimo: the
\* products altered at or after that instant.
pesquisar_alteracoes(timestamp_ultimo) ==
  {id \in IdsProvedor : alt.alterado[id] # 0 /\ alt.alterado[id] >= timestamp_ultimo}

\* buscar_e_gravar_produtos_incremental up to the loop: the request; a failed
\* one returns; without records the timestamp becomes datetime.now and the
\* function returns; with records the loop follows.
alt_listar ==
  /\ alt.pc = "parado"
  /\ alt.hora < MaxHora
  /\ \E erro \in BOOLEAN :
       LET produtos_alterados == pesquisar_alteracoes(alt.ts)
       IN  alt' = IF erro THEN [alt EXCEPT !.hora = @ + 1]
                  ELSE IF produtos_alterados = {}
                    THEN [alt EXCEPT !.ts = alt.hora, !.hora = @ + 1]
                  ELSE [alt EXCEPT !.pc = "listado", !.listados = produtos_alterados,
                                   !.hora = @ + 1]
  /\ UNCHANGED resto_alt

\* "for produto in produtos_alterados" and what follows it: the detail of
\* each listed product is fetched as it is now and stored, unless it is one
\* of falhos; then the timestamp becomes datetime.now.
alt_processar ==
  /\ alt.pc = "listado"
  /\ \E falhos \in SUBSET alt.listados :
       alt' = [alt EXCEPT
                 !.gravado = [id \in IdsProvedor |->
                                IF id \in alt.listados \ falhos
                                  THEN alt.alterado[id] ELSE @[id]],
                 !.ts = alt.hora, !.pc = "parado", !.listados = {},
                 !.hora = @ + 1]
  /\ UNCHANGED resto_alt

NextAlteracoes ==
  \/ alt_alterar
  \/ alt_listar
  \/ alt_processar

SpecAlteracoes == Init /\ [][NextAlteracoes]_vars

\* ------------------------------------------------------------------ claims
PaginaGravada(e) == progresso[CHAVE_PAGINA(e)]
TimestampGravado(e) == progresso[CHAVE_TIMESTAMP(e)]

\* C1: when an invocation starts with a stored page cursor N (a digit string)
\* and no stored timestamp, the first listing request of that entity's
\* backfill in the invocation is for page N.
C1_RetomaDaPaginaGravada ==
  \A e \in Paginadas :
    ( /\ isdigit(inicio[CHAVE_PAGINA(e)])
      /\ ~Verdadeiro(inicio[CHAVE_TIMESTAMP(e)])
      /\ listagens[e] # <<>> )
    => listagens[e][1] = inicio[CHAVE_PAGINA(e)]

\* C2: once a backfill listing got the end-of-pages code, the next invocation
\* makes no page-numbered listing request for that entity type, and when its
\* stage for the entity has returned it has made a delta request.
C2_ProximaExecucaoIncremental ==
  \A e \in Paginadas :
    (fim_visto[e] # 0 /\ execucao = fim_visto[e] + 1)
    => /\ listagens[e] = <<>>
       /\ e \in retornou => deltas[e] > 0

\* C3: an invocation that starts with a non-empty timestamp stored for an
\* entity type makes no backfill listing request for it.
C3_SemVoltaACargaCompleta ==
  \A e \in Paginadas :
    Verdadeiro(inicio[CHAVE_TIMESTAMP(e)]) => listagens[e] = <<>>

\* C4: whenever a backfill page fails (request, envelope, error status other
\* than end-of-pages, commit), the page cursor stored when the step is over
\* is the number of that page.
C4_PaginaFalhaFicaGravada ==
  \A e \in Paginadas : ult[e].falhou => PaginaGravada(e) = ult[e].pagina

\* C5: a backfill listing page with an empty record list ends the backfill as
\* the end-of-pages code does: paging stops, the cursor is cleared and a
\* timestamp is stored.
C5_PaginaVaziaEncerra ==
  \A e \in Paginadas :
    ult[e].resp = "vazia"
    => /\ pc # PcCarga(e)
       /\ PaginaGravada(e) = VAZIO
       /\ Verdadeiro(TimestampGravado(e))

\* C6: when a backfill listing gets the end-of-pages code, also on the first
\* page requested, no record of the answer is processed, a timestamp is
\* stored, the cursor is cleared, and the stage returns success with no work
\* remaining.
C6_FimDePaginasEncerra ==
  \A e \in Paginadas :
    ult[e].resp = "fim"
    => /\ ult[e].detalhes = 0
       /\ Verdadeiro(TimestampGravado(e))
       /\ PaginaGravada(e) = VAZIO
       /\ e \in retornou
       /\ resultado[e] = [sucesso |-> TRUE, restantes |-> FALSE]

\* C7: in one invocation the backfill of products requests at most
\* MAX_LOTES_PRODUTOS_POR_EXECUCAO x PAGINAS_POR_LOTE_PRODUTOS listing pages,
\* and that of orders at most MAX_LOTES_PEDIDOS_POR_EXECUCAO x
\* PAGINAS_POR_LOTE_PEDIDOS.
C7_LimiteDePaginasPorExecucao ==
  /\ Len(listagens["produtos"])
       <= MAX_LOTES_PRODUTOS_POR_EXECUCAO * PAGINAS_POR_LOTE_PRODUTOS
  /\ Len(listagens["pedidos"])
       <= MAX_LOTES_PEDIDOS_POR_EXECUCAO * PAGINAS_POR_LOTE_PEDIDOS

\* The scenario of C8: one page per invocation, nothing fails, and the
\* products stage of the invocation has returned.
C8_Cenario ==
  /\ max_lotes = 1
  /\ paginas_por_lote = 1
  /\ falhas = 0
  /\ "produtos" \in retornou

\* C8 as stated: with one page per invocation, the backfill of a K-page
\* product collection has reached incremental mode (cursor cleared,
\* timestamp stored) when the products stage of invocation K has returned.
C8_KExecucoes ==
  (C8_Cenario /\ num_paginas["produtos"] >= 1
     /\ execucao = num_paginas["produtos"])
  => /\ Verdadeiro(TimestampGravado("produtos"))
     /\ PaginaGravada("produtos") = VAZIO

\* C8 as amended: with one page per invocation and nothing failing,
\* invocation j <= K requests page j alone, stores cursor j + 1 and ends with
\* work remaining; invocation K + 1 requests page K + 1, gets end-of-pages,
\* clears the cursor and stores the timestamp.
C8_KMaisUmaExecucoes ==
  C8_Cenario
  => LET K == num_paginas["produtos"]
     IN  /\ execucao <= K + 1 => listagens["produtos"] = <<execucao>>
         /\ execucao <= K
              => /\ PaginaGravada("produtos") = execucao + 1
                 /\ ~Verdadeiro(TimestampGravado("produtos"))
                 /\ resultado["produtos"] = [sucesso |-> TRUE, restantes |-> TRUE]
                 /\ pc = "fim"
         /\ execucao = K + 1
              => /\ PaginaGravada("produtos") = VAZIO
                 /\ Verdadeiro(TimestampGravado("produtos"))
                 /\ resultado["produtos"] = [sucesso |-> TRUE, restantes |-> FALSE]

\* C8's case: the third invocation on a two-page collection ends the backfill.
C8_Alcancado ==
  /\ C8_Cenario
  /\ num_paginas["produtos"] = 2
  /\ execucao = 3
  /\ Verdadeiro(TimestampGravado("produtos"))

\* C9: if the products stage ends with work remaining, the invocation makes
\* no seller request or write and no order request or write: main() is over.
C9_SemEtapasAposProdutosRestantes ==
  ("produtos" \in retornou /\ resultado["produtos"].restantes)
  => /\ eventos \cap {"vendedores", "pedidos"} = {}
     /\ pc = "fim"

\* C9's case: the backfill of products reached the batch limit.
C9_Alcancado ==
  /\ "produtos" \in retornou
  /\ resultado["produtos"] = [sucesso |-> TRUE, restantes |-> TRUE]
  /\ listagens["produtos"] # <<>>
  /\ pc = "fim"

\* C10: the stages run in the order categories, products, sellers, orders:
\* a stage makes a request or a write only after the stage before it has
\* returned.
C10_OrdemDasEtapas ==
  /\ "produtos" \in eventos => "categorias" \in retornou
  /\ "vendedores" \in eventos => "produtos" \in retornou
  /\ "pedidos" \in eventos => "vendedores" \in retornou
  /\ pc \in {"produtos", "produtos_carga", "produtos_inc"} => "categorias" \in retornou
  /\ pc = "vendedores" => "produtos" \in retornou
  /\ pc \in {"pedidos", "pedidos_carga", "pedidos_inc"} => "vendedores" \in retornou

\* C10's case: all four stages have made their requests.
C10_Alcancado ==
  /\ eventos = Etapas
  /\ retornou = Etapas

\* ------------------------------------------------- claims on the tables
\* The row and the item rows of one order in the tables.
EstadoDoPedido(banco, id_pedido) ==
  [linha |-> {r \in banco.pedidos : r.id = id_pedido},
   itens |-> {r \in banco.itens_pedido : r.pedido = id_pedido}]

\* The item rows that are exactly an incoming list, written at time t.
ItensRecebidos(id_pedido, itens, t) ==
  {[id |-> IdItem(id_pedido, itens[k]), pedido |-> id_pedido,
    produto |-> itens[k].id_produto, data |-> t] : k \in DOMAIN itens}

\* The complete new state of the order of the last operation.
EstadoNovo ==
  [linha |-> {[id |-> op.id, vendedor |-> op.resposta.dados.id_vendedor,
               data |-> relogio - 1]},
   itens |-> ItensRecebidos(op.id, op.resposta.dados.itens, relogio - 1)]

PedidoRecebido == op.tipo = "pedido" /\ op.resposta.tipo = "ok"

\* C11: after an order upsert the destination holds, for that order, either
\* the complete previous state (row and items as before) or the complete new
\* state (the new row and exactly the incoming items), never a mix.
C11_PedidoTudoOuNada ==
  PedidoRecebido
  => EstadoDoPedido(db, op.id) \in {EstadoDoPedido(op.antes, op.id), EstadoNovo}

\* C12: after a successful re-sync of an order its item rows are exactly the
\* incoming list, for every length of the list, zero included.
C12_ItensIguaisAosRecebidos ==
  (PedidoRecebido /\ op.sucesso)
  => EstadoDoPedido(db, op.id).itens
       = ItensRecebidos(op.id, op.resposta.dados.itens, relogio - 1)

\* The tables without the update time.
SemData(banco) ==
  [t \in DOMAIN banco |->
     {[c \in DOMAIN r \ {"data"} |-> r[c]] : r \in banco[t]}]

\* The last operation applied once more, to the tables as they are now.
Reaplicar ==
  CASE op.tipo = "categorias" -> categorias_no_destino(db, op.resposta, FALSE)
    [] op.tipo = "produto" -> produto_listado(db, op.id, op.resposta, FALSE)
    [] op.tipo = "vendedores" -> vendedores_no_destino(db, op.resposta, FALSE)
    [] op.tipo = "pedido" -> pedido_listado(db, op.id, op.resposta, FALSE)

\* C13: applying a record that was applied successfully a second time leaves
\* one row per provider id in every table, and tables equal in every column
\* but the update time to the tables after the first time.
C13_UpsertIdempotente ==
  (op.tipo # "nenhuma" /\ op.sucesso)
  => /\ Reaplicar.sucesso
     /\ SemData(Reaplicar.db) = SemData(db)
     /\ \A t \in DOMAIN db :
          Cardinality(Reaplicar.db[t]) = Cardinality(IdsDe(Reaplicar.db[t]))

\* An order with two items is applied with success a second time: its row and
\* items were there before, with an older update time.
C13_Alcancado ==
  /\ PedidoRecebido
  /\ op.sucesso
  /\ Len(op.resposta.dados.itens) = 2
  /\ EstadoDoPedido(op.antes, op.id).linha # {}
  /\ EstadoDoPedido(op.antes, op.id) # EstadoDoPedido(db, op.id)
  /\ SemData(op.antes) = SemData(db)

\* C14: a record that lacks its id or its name is skipped: no table with a
\* name column holds a row without a name, and no table a row without id.
C14_SemIdOuNomeNaoGrava ==
  /\ \A t \in {"categorias", "produtos", "vendedores", "pedidos"} : 0 \notin IdsDe(db[t])
  /\ \A t \in {"categorias", "produtos", "vendedores"} :
       \A r \in db[t] : r.nome # ""

\* C15: when the last category tree synchronised contains c, at any depth,
\* and the detail of a listed product that references c is obtained and
\* written without a transient failure, the product's row exists with c as
\* its category.
C15_ProdutoComCategoriaDaArvore ==
  (/\ op.tipo = "produto"
   /\ op.resposta.tipo = "ok"
   /\ ~op.falha
   /\ op.resposta.dados.idCategoria \in NosDaArvore(arvore))
  => \E r \in db.produtos :
       r.id = op.id /\ r.categoria = op.resposta.dados.idCategoria

\* The rows a categories sync writes for the list it iterates, at time t.
LinhasCategorias(categorias, t) ==
  {[id |-> categorias[i].id, nome |-> categorias[i].nome,
    pai |-> categorias[i].idPai, data |-> t] :
     i \in {j \in DOMAIN categorias :
              categorias[j].id # 0 /\ categorias[j].nome # ""}}

\* The rows a sellers sync writes for the contacts it got, at time t.
LinhasVendedores(contatos, t) ==
  {[id |-> contatos[i].id, nome |-> contatos[i].nome, data |-> t] :
     i \in {j \in DOMAIN contatos :
              /\ EhVendedor(contatos[j])
              /\ contatos[j].id # 0 /\ contatos[j].nome # ""}}

\* The last operation is a categories or sellers sync that got its list.
ListaRecebida == op.tipo \in {"categorias", "vendedores"} /\ op.resposta.tipo = "ok"

\* The table the last sync writes, and the rows it writes.
TabelaDaLista == IF op.tipo = "categorias" THEN "categorias" ELSE "vendedores"
EscritasDaLista ==
  IF op.tipo = "categorias" THEN LinhasCategorias(op.resposta.dados, relogio - 1)
  ELSE LinhasVendedores(op.resposta.dados, relogio - 1)

\* C21: a categories sync, and likewise a sellers sync, commits once at the
\* end: when an upsert (or the commit) fails none of its writes is visible and
\* it reports failure; otherwise all of its writes are visible.
C21_CommitUnicoNoFim ==
  ListaRecebida
  => /\ (op.falha /\ EscritasDaLista # {}) => ~op.sucesso
     /\ op.sucesso => /\ EscritasDaLista \subseteq db[TabelaDaLista]
                      /\ IdsDe(db[TabelaDaLista])
                           = IdsDe(op.antes[TabelaDaLista]) \cup IdsDe(EscritasDaLista)
     /\ ~op.sucesso => db = op.antes

\* A sync of two records fails at a statement: both upserts are undone.
C21_Alcancado ==
  /\ ListaRecebida
  /\ op.falha
  /\ ~op.sucesso
  /\ Cardinality(EscritasDaLista) = 2
  /\ db = op.antes

\* The nodes of a tree that have an id and a name, at any depth.
NosComIdENome(categorias) ==
  LET nos == {categorias[i] : i \in DOMAIN categorias}
               \cup UNION {{categorias[i].filhos[j] : j \in DOMAIN categorias[i].filhos} :
                             i \in DOMAIN categorias}
  IN  {n \in nos : n.id # 0 /\ n.nome # ""}

\* C22: after a successful categories sync every node of the provider's tree
\* that has an id and a name, at every depth, has a row with the id of its
\* parent as parent reference (NULL for a root).
C22_TodosOsNosDaArvore ==
  (op.tipo = "categorias" /\ op.resposta.tipo = "ok" /\ op.sucesso)
  => \A n \in NosComIdENome(op.resposta.dados) :
       \E r \in db.categorias : r.id = n.id /\ r.pai = n.idPai

\* ----------------------------------------------- claims on the checkpoints
\* The checkpoint of entity type e has moved past the listing answer the last
\* step handled: a later backfill does not request that page again, and a
\* later delta listing asks only for what changed after the new timestamp.
CheckpointPassou(e) ==
  \/ Verdadeiro(TimestampGravado(e))
  \/ PaginaInicial(PaginaGravada(e)) > ult[e].pagina

\* C16: every record listed to the job is applied by a successful upsert, in
\* this run or a later one, when its failures are transient.  A record is
\* requested again only while the checkpoint has not passed its listing, so:
\* whenever the checkpoint has passed a backfill page, the records of the page
\* are stored, and whenever a delta run has overwritten the timestamp, the
\* records it listed are stored.
C16_ListadoAplicado ==
  \A e \in Paginadas :
    /\ (ult[e].resp = "registros" /\ CheckpointPassou(e))
         => Ids(RegistrosDaPagina(ult[e].pagina)) \subseteq linhas[e]
    /\ (ult[e].resp = "delta" /\ TimestampGravado(e) = novo_timestamp)
         => ult[e].falhos \subseteq linhas[e]

\* C17: when a listing is answered with the error status of an invalid
\* credential (an error status other than end-of-pages), the run is over and
\* the page cursor has not advanced.
C17_CredencialInvalidaAborta ==
  \A e \in Paginadas :
    ult[e].resp = "status_erro"
    => /\ pc = "fim"
       /\ PaginaGravada(e) # ProximaPagina(ult[e].pagina)

\* C18: when the detail of a listed record fails (as with "record not
\* found"), no row is inserted for its id, the other records of the page are
\* stored, and the stage does not return failure.
C18_NaoEncontradoNaoFalha ==
  \A e \in Paginadas :
    (ult[e].resp = "registros" /\ ult[e].falhos # {})
    => /\ \A id \in ult[e].falhos : id \in linhas[e] <=> id \in ult[e].antes
       /\ Ids(RegistrosDaPagina(ult[e].pagina)) \ ult[e].falhos \subseteq linhas[e]
       /\ pc = PcCarga(e) \/ resultado[e].sucesso

\* C18's case: one record of a page failed and another one was stored.
C18_Alcancado ==
  \E e \in Paginadas :
    /\ ult[e].resp = "registros"
    /\ ult[e].falhos # {}
    /\ ult[e].falhos \cap linhas[e] = {}
    /\ \E id \in Ids(RegistrosDaPagina(ult[e].pagina)) \ ult[e].falhos :
         id \in linhas[e] \ ult[e].antes

\* C19: an incremental run that completes, with or without records, has
\* overwritten the timestamp of the entity type with the current time.
C19_IncrementalGravaTimestamp ==
  \A e \in Paginadas :
    (ult[e].resp = "delta" /\ resultado[e].sucesso)
    => TimestampGravado(e) = novo_timestamp

\* C20: an incremental run that has overwritten the timestamp has requested
\* every page of the delta listing.
C20_TodasAsPaginasDoDelta ==
  \A e \in Paginadas :
    (ult[e].resp = "delta" /\ resultado[e].sucesso
       /\ TimestampGravado(e) = novo_timestamp)
    => deltas[e] >= ult[e].pagina

\* C29: a non-empty sync timestamp is stored for products (orders) only if
\* an earlier backfill listing of that entity type was answered with the
\* provider's end-of-pages signal.
C29_TimestampSoAposFim ==
  \A e \in Paginadas : Verdadeiro(TimestampGravado(e)) => fim_visto[e] # 0

\* The backfill took the answer it handled last as the end of the pages: it
\* returned success with nothing remaining.
TomadaComoFim(e) ==
  /\ ult[e].resp \notin {"nenhuma", "delta"}
  /\ pc # PcCarga(e)
  /\ resultado[e].sucesso
  /\ ~resultado[e].restantes

\* C30: the end-of-pages check is true only for an answer whose envelope
\* carries error code 22 or 23; an answer that carries records is never taken
\* as end-of-pages, whatever the text of its records.
C30_FimSoComCodigo22Ou23 ==
  \A e \in Paginadas : TomadaComoFim(e) => ult[e].resp = "fim"

\* C27: a call of the request helper makes at most 3 attempts; it returns
\* the decoded body of the first attempt that succeeds, and after 3 failed
\* attempts an error value; whenever it returns, it returns a value and every
\* earlier attempt had failed.
C27_NoMaximoTresTentativas ==
  /\ Len(req.respostas) <= 3
  /\ req.pc = "retornou"
     => LET n == Len(req.respostas)
            ultima == req.respostas[n]
        IN  /\ req.retorno.tipo \notin {"nenhum", "None"}
            /\ n >= 1
            /\ \A i \in 1..(n - 1) : req.respostas[i].desfecho = "falha"
            /\ ultima.desfecho = "json" => req.retorno = RetornoJson(ultima.corpo)
            /\ ultima.desfecho = "nao_json" => req.retorno.tipo = "erro_json"
            /\ ultima.desfecho = "falha"
                 => n = 3 /\ req.retorno.tipo = "erro_tentativas"

\* Two attempts fail and the third one is answered: the call returns the
\* third body.
C27_Alcancado ==
  /\ req.pc = "retornou"
  /\ Len(req.respostas) = 3
  /\ req.respostas[3].desfecho = "json"
  /\ req.retorno = RetornoJson(req.respostas[3].corpo)


\* ------------------------------------------------- claims on the connections
\* C24: once the connection is lost and conectar_db has used up
\* MAX_DB_RECONNECT_ATTEMPTS without getting one, the run makes no further
\* request to the provider and starts no later stage.
C24_SemConexaoTermina ==
  cx.esgotada => (~cx.req_apos /\ cx.etapa_apos = "")

\* The calls of the progress-store functions made by the last step.
OperacoesDoPasso == {cx.ops[i] : i \in 1..Len(cx.ops)}

\* What a call returns and stores when it runs on an open connection.
ComoComConexaoAberta(o) ==
  IF o.tipo = "ler"
    THEN /\ o.valor_lido = (IF o.antes[o.chave] # NULO THEN o.antes[o.chave] ELSE o.valor)
         /\ o.depois = o.antes
    ELSE o.depois = [o.antes EXCEPT ![o.chave] = o.valor]

\* The caller's default or the failure, and the stored progress as it was.
PadraoOuFalha(o) ==
  /\ o.tipo = "ler" => o.valor_lido = o.valor
  /\ o.depois = o.antes

\* C26: a progress-store call given a closed or null connection goes through
\* conectar_db and then does what it does on an open connection; a call that
\* gets no connection or whose SQL fails gives the caller's default (read) or
\* failure (write) and leaves the stored progress as it was.
C26_ArmazemReconecta ==
  \A o \in OperacoesDoPasso :
    /\ o.conn_antes \in {"None", "fechada"} => o.alvo \in {"local", "None"}
    /\ o.alvo = "None" => ~o.sucesso
    /\ o.sucesso => ComoComConexaoAberta(o)
    /\ ~o.sucesso => PadraoOuFalha(o)

\* A write given a closed connection reconnected and stored its value, and a
\* read given a closed connection reconnected and returned a stored value.
C26_Alcancado ==
  /\ \E o \in OperacoesDoPasso :
       /\ o.tipo = "salvar" /\ o.conn_antes = "fechada" /\ o.alvo = "local"
       /\ o.sucesso /\ o.depois # o.antes
  /\ cx.execucao = 2

\* The connections that are open: main()'s and the local ones.
ConexoesAbertas ==
  (IF cx.conn \in {"aberta", "quebrada"} THEN 1 ELSE 0) + cx.locais

\* C28: at most one connection is open at any point, the progress store works
\* on main()'s connection, the one the stages write on, and none is open when
\* main() has returned.
C28_UmaSoConexao ==
  /\ ConexoesAbertas <= 1
  /\ \A o \in OperacoesDoPasso : o.alvo # "local"
  /\ cx.pc = "fim" => ConexoesAbertas = 0


\* ------------------------------------------------------- claims on the kills
\* The invocation after a kill during the backfill of e has read its page
\* cursor and is about to request its first listing.
Retomada(e) == queda.retomada /\ queda.etapa = e /\ pc = PcCarga(e)

\* C23: after a kill during a backfill, the next invocation resumes from the
\* stored page cursor, every page below it was fetched and had all its
\* records attempted, and every row and checkpoint committed before the kill
\* is still there.
C23_RetomaAposQueda ==
  \A e \in Paginadas :
    Retomada(e)
    => /\ pagina_atual = PaginaInicial(progresso[CHAVE_PAGINA(e)])
       /\ \A p \in 1..(pagina_atual - 1) : p \in queda.completas[e]
       /\ progresso = queda.prog
       /\ queda.linhas \subseteq linhas[e]


\* ------------------------------------------------------ claims on termination
\* The listing requests an invocation can make for an entity type: main()
\* calls the products stage at most MAX_LOTES times and a backfill lists at
\* most MAX_LOTES * PAGINAS_POR_LOTE pages; the incremental function makes
\* one request.
LimiteDeListagens(e) ==
  IF e = "produtos"
    THEN MAX_LOTES_PRODUTOS_POR_EXECUCAO * MAX_LOTES_PRODUTOS_POR_EXECUCAO
           * PAGINAS_POR_LOTE_PRODUTOS + 1
    ELSE MAX_LOTES_PEDIDOS_POR_EXECUCAO * PAGINAS_POR_LOTE_PEDIDOS + 1

\* C25: every invocation makes a bounded number of listing requests and
\* reaches the end of main(), whatever the provider and the store answer.
C25_TodaExecucaoTermina ==
  /\ [](\A e \in Paginadas : Len(listagens[e]) + deltas[e] <= LimiteDeListagens(e))
  /\ \A n \in 1..MaxExecucoes :
       (execucao = n /\ pc # "parado") ~> (execucao = n /\ pc = "fim")

\* An invocation listed as many pages as the batch limits allow and ended.
C25_Alcancado ==
  /\ pc = "fim"
  /\ max_lotes = 1 /\ paginas_por_lote = 2
  /\ Len(listagens["produtos"]) = 2
  /\ resultado["produtos"] = [sucesso |-> TRUE, restantes |-> TRUE]


\* ------------------------------------------------------ claims on the records
\* C31: when the detail fetch or the upsert of one record of a page fails,
\* the rows committed before stay, every record of the page is still
\* processed and its page-mates are stored, and the stage goes on instead of
\* returning failure.
C31_FalhaDeUmRegistroNaoBloqueia ==
  \A e \in Paginadas :
    (ult[e].resp = "registros" /\ ult[e].falhos # {})
    => /\ ult[e].antes \subseteq linhas[e]
       /\ ult[e].detalhes = Len(RegistrosDaPagina(ult[e].pagina))
       /\ \A i \in 1..RegistrosPorPagina :
            LET id == RegistrosDaPagina(ult[e].pagina)[i]
            IN  id \notin ult[e].falhos => id \in linhas[e]
       /\ pc = PcCarga(e) \/ resultado[e].sucesso

\* The first record of a page failed, the record after it was stored, and the
\* backfill is at the next page.
C31_Alcancado ==
  \E e \in Paginadas :
    /\ ult[e].resp = "registros"
    /\ ult[e].falhos = {RegistrosDaPagina(ult[e].pagina)[1]}
    /\ RegistrosDaPagina(ult[e].pagina)[2] \in linhas[e] \ ult[e].antes
    /\ pc = PcCarga(e)
    /\ pagina_atual = ProximaPagina(ult[e].pagina)


\* ------------------------------------------------------ claims on the upserts
\* The table and the rows the last operation wrote when it succeeded: the
\* incoming values and the time of the write.
TabelaEscrita ==
  CASE op.tipo = "produto" -> "produtos"
    [] op.tipo = "pedido" -> "pedidos"
    [] OTHER -> TabelaDaLista

LinhasEscritas ==
  CASE op.tipo = "produto" ->
         {[id |-> op.id, nome |-> op.resposta.dados.nome,
           categoria |-> op.resposta.dados.idCategoria, data |-> relogio - 1]}
    [] op.tipo = "pedido" ->
         {[id |-> op.id, vendedor |-> op.resposta.dados.id_vendedor,
           data |-> relogio - 1]}
    [] OTHER -> EscritasDaLista

\* The last operation is a write that succeeded on data it received.
EscritaFeita ==
  /\ op.tipo \in {"categorias", "produto", "vendedores", "pedido"}
  /\ op.resposta.tipo = "ok"
  /\ op.sucesso

\* The rows written over a row that was there.
Sobrescritas == {w \in LinhasEscritas : w.id \in IdsDe(op.antes[TabelaEscrita])}

\* C32: when a product, an order, a category or a seller whose id is already
\* stored is upserted, the stored row of that id is the incoming one in every
\* column: there is one row of the id and nothing of the previous row is
\* kept.
C32_UpsertSobrescreve ==
  EscritaFeita
  => \A w \in Sobrescritas :
       \A r \in db[TabelaEscrita] : r.id = w.id => r = w

\* A product row was overwritten by one that differs from it in the name.
C32_Alcancado ==
  /\ EscritaFeita
  /\ op.tipo = "produto"
  /\ \E w \in Sobrescritas :
       \E a \in op.antes.produtos : a.id = w.id /\ a.nome # w.nome /\ w \in db.produtos


\* The last operation got the detail of a product whose category has no row
\* in the destination, and no statement failed for another reason.
CategoriaDesconhecida ==
  /\ op.tipo = "produto"
  /\ op.resposta.tipo = "ok"
  /\ ~op.falha
  /\ op.resposta.dados.idCategoria # 0
  /\ op.resposta.dados.idCategoria \notin IdsDe(op.antes.categorias)

\* C33: the upsert of a product whose category is not in the destination
\* succeeds and stores the product with a null category, and every non-null
\* category of a product row is the id of a category row.
C33_CategoriaDesconhecidaGravaNulo ==
  /\ CategoriaDesconhecida
       => /\ op.sucesso
          /\ \E r \in db.produtos : r.id = op.id /\ r.categoria = 0
  /\ \A r \in db.produtos :
       r.categoria # 0 => r.categoria \in IdsDe(db.categorias)

\* ------------------------------------------------------ claims on the sellers
ContatosDaColecao ==
  UNION {{op.colecao[p][i] : i \in 1..Len(op.colecao[p])} :
           p \in 1..Len(op.colecao)}
VendedoresDaColecao ==
  {c \in ContatosDaColecao : EhVendedor(c) /\ c.id # 0 /\ c.nome # ""}
VendedoresEscritos == {r \in db.vendedores : r.data = relogio - 1}

\* C34: after a successful sellers sync the seller rows it wrote are exactly
\* the contacts of the provider's whole collection, on any listing page, that
\* are of the seller type and have an id and a name.
C34_VendedoresDeTodaAColecao ==
  (op.tipo = "contatos" /\ op.resposta.tipo = "ok" /\ op.sucesso)
  => IdsDe(VendedoresEscritos) = IdsDe(VendedoresDaColecao)

\* ---------------------------------------------------- claims on the instances
EmCurso(i) == inst.p[i].pc \in {"listar", "gravar", "salvar"}
PaginasContadas(i) ==
  inst.p[i].lotes_processados * PAGINAS_POR_LOTE_PRODUTOS
    + inst.p[i].paginas_processadas

\* C35: nothing excludes one run from another: an instance that is not
\* running can start whatever the other instance is doing, and a running
\* instance works on the page it computes from the cursor it read at its start
\* and the pages it counted itself, never from what the other instance wrote
\* since; so both can read one cursor and fetch and process one page.
C35_SemExclusaoMutua ==
  \A i \in Instancias :
    /\ (inst.p[i].pc = "parado" /\ inst.p[i].execucoes < MaxExecucoesInstancia)
         => ENABLED inst_iniciar(i)
    /\ EmCurso(i)
         => inst.p[i].pagina_atual = PaginaInicial(inst.p[i].lida) + PaginasContadas(i)
C35_Alcancado ==
  /\ inst.p[1].pc = "salvar"
  /\ inst.p[2].pc = "salvar"
  /\ inst.p[1].lida = inst.p[2].lida
  /\ inst.p[1].pagina_atual = inst.p[2].pagina_atual
  /\ inst.p[1].pagina_atual \in inst.p[1].feitas \cap inst.p[2].feitas

\* -------------------------------------------------- claims on the alterations
\* C36: no alteration is missed: between two incremental runs every product
\* whose last alteration the job has not stored was altered at or after the
\* stored timestamp, so that the next delta request returns it.
C36_NenhumaAlteracaoPerdida ==
  alt.pc = "parado"
  => \A id \in IdsProvedor :
       alt.alterado[id] > alt.gravado[id] => alt.alterado[id] >= alt.ts

\* ---------------------------------------------- claims on the incremental stage
ListagemDeltaFalhou ==
  /\ op.tipo = "delta"
  /\ \/ op.resposta.erro
     \/ ~op.resposta.tem_retorno
     \/ /\ op.resposta.status = "Erro"
        /\ extrair_codigo_erro_api(op.resposta) \notin CodigosNenhumRegistro

\* C37: after an incremental run whose delta listing failed (failed request,
\* no envelope, or an error status of a code other than 14 and 34) the stored
\* timestamp of the entity type is the one stored before the run, and the
\* stage has reported failure.
C37_ListagemFalhaNaoMexeNoTimestamp ==
  ListagemDeltaFalhou
  => /\ progresso[CHAVE_TIMESTAMP(op.etapa)] = op.antes[CHAVE_TIMESTAMP(op.etapa)]
     /\ ~op.sucesso
C37_Alcancado ==
  /\ ListagemDeltaFalhou
  /\ op.resposta.status = "Erro"
  /\ ~op.sucesso
  /\ Verdadeiro(op.antes[CHAVE_TIMESTAMP(op.etapa)])
  /\ progresso[CHAVE_TIMESTAMP(op.etapa)] = op.antes[CHAVE_TIMESTAMP(op.etapa)]
  /\ progresso[CHAVE_TIMESTAMP(op.etapa)] < execucao - 1

\* ------------------------------------------------------ claims on the stages
Falhou(etapa) == etapa \in retornou /\ ~resultado[etapa].sucesso
PcProdutos == {"produtos", "produtos_carga", "produtos_inc"}
PcPedidos == {"pedidos", "pedidos_carga", "pedidos_inc"}

\* C38: a run whose categories stage failed went on to the products stage,
\* and a run whose sellers stage failed went on to the orders stage; a run
\* whose products stage returned failure, from the backfill or from the
\* incremental function, is over, and made no seller and no order request or
\* write.
C38_PropagacaoDasFalhas ==
  /\ Falhou("categorias") => (pc \in PcProdutos \/ "produtos" \in retornou)
  /\ Falhou("vendedores") => (pc \in PcPedidos \/ "pedidos" \in retornou)
  /\ Falhou("produtos")
       => /\ pc = "fim"
          /\ (eventos \cup retornou) \cap {"vendedores", "pedidos"} = {}
C38_Alcancado ==
  /\ Falhou("produtos")
  /\ deltas["produtos"] = 1
  /\ "categorias" \in retornou
  /\ resultado["categorias"].sucesso
  /\ pc = "fim"
C38_CategoriasFalha == Falhou("categorias") /\ eventos = Etapas /\ pc = "fim"
C38_VendedoresFalha == Falhou("vendedores") /\ "pedidos" \in eventos /\ pc = "fim"
C38_CargaFalha == Falhou("produtos") /\ listagens["produtos"] # <<>> /\ pc = "fim"

====
